---- MODULE Spec2Model ----
(***************************************************************************)
(* A model of github.com/jarvanstack/mysqldump: the replay side (Source,   *)
(* mergeInsert, trim, DBWrapper.Exec, GetDBNameFromDNS) and the text       *)
(* escaping of the row encoder (buildRowData).                             *)
(*                                                                         *)
(* A Go string is a sequence of one-character strings, so every string     *)
(* operation below (HasPrefix, Index, TrimSuffix, TrimSpace, ReadString)   *)
(* works on characters, as the library functions the code calls do.        *)
(***************************************************************************)
EXTENDS Integers, Sequences, FiniteSets, TLC

(***************************************************************************)
(* Bounds of the model.                                                    *)
(***************************************************************************)
\* Longest input stream of Source, in statements drawn from StmtPool.
MaxStmts == 3
\* Largest merge size given to WithMergeInsert.
MaxMerge == 3

(***************************************************************************)
(* Strings of the Go standard library used by the code.                    *)
(***************************************************************************)
\* unicode.IsSpace, as strings.TrimSpace uses it: the ASCII white space with
\* the vertical tab, NEL and the no-break space of Latin-1, and the other
\* characters of the Unicode property White_Space.  A character that has no
\* escape in a TLA+ string is the one element naming its code point.
IsSpace(c) ==
    c \in {" ", "\t", "\n", "\r", "\f", "U+000B", "U+0085", "U+00A0",
           "U+1680", "U+2000", "U+2001", "U+2002", "U+2003", "U+2004", "U+2005",
           "U+2006", "U+2007", "U+2008", "U+2009", "U+200A", "U+2028", "U+2029",
           "U+202F", "U+205F", "U+3000"}

\* strings.HasPrefix
HasPrefix(s, prefix) ==
    /\ Len(s) >= Len(prefix)
    /\ SubSeq(s, 1, Len(prefix)) = prefix

\* strings.HasSuffix
HasSuffix(s, suffix) ==
    /\ Len(s) >= Len(suffix)
    /\ SubSeq(s, Len(s) - Len(suffix) + 1, Len(s)) = suffix

\* strings.TrimPrefix: s without the prefix, or s when it does not start with it.
TrimPrefix(s, prefix) ==
    IF HasPrefix(s, prefix) THEN SubSeq(s, Len(prefix) + 1, Len(s)) ELSE s

\* strings.TrimSuffix: s without the suffix (once), or s when it does not end with it.
TrimSuffix(s, suffix) ==
    IF HasSuffix(s, suffix) THEN SubSeq(s, 1, Len(s) - Len(suffix)) ELSE s

\* strings.Index: the 0-based index of the first occurrence of substr, or -1.
Index(s, substr) ==
    LET hits == {i \in 0..(Len(s) - Len(substr)) :
                    SubSeq(s, i + 1, i + Len(substr)) = substr}
    IN  IF hits = {} THEN 0 - 1
        ELSE CHOOSE i \in hits : \A j \in hits : i <= j

\* strings.TrimLeft(s, cutset): s without its leading characters of cutset.
RECURSIVE TrimLeft(_, _)
TrimLeft(s, cutset) ==
    IF s # <<>> /\ Head(s) \in cutset THEN TrimLeft(Tail(s), cutset) ELSE s

\* The leading-whitespace half of strings.TrimSpace.
RECURSIVE TrimLeftSpace(_)
TrimLeftSpace(s) ==
    IF s # <<>> /\ IsSpace(Head(s)) THEN TrimLeftSpace(Tail(s)) ELSE s

\* The trailing-whitespace half of strings.TrimSpace.
RECURSIVE TrimRightSpace(_)
TrimRightSpace(s) ==
    IF s # <<>> /\ IsSpace(s[Len(s)])
    THEN TrimRightSpace(SubSeq(s, 1, Len(s) - 1))
    ELSE s

\* strings.TrimSpace
TrimSpace(s) == TrimRightSpace(TrimLeftSpace(s))

\* strings.Split(s, sep) for a one-character separator.
RECURSIVE Split(_, _)
Split(s, sep) ==
    LET i == Index(s, <<sep>>)
    IN  IF i = 0 - 1 THEN <<s>>
        ELSE <<SubSeq(s, 1, i)>> \o Split(SubSeq(s, i + 2, Len(s)), sep)

\* The concatenation of a sequence of strings.
RECURSIVE Flatten(_)
Flatten(ss) == IF ss = <<>> THEN <<>> ELSE Head(ss) \o Flatten(Tail(ss))

(***************************************************************************)
(* Literals of the code.                                                   *)
(***************************************************************************)
\* "INSERT INTO", the prefix Source tests a statement for.
InsertInto == <<"I", "N", "S", "E", "R", "T", " ", "I", "N", "T", "O">>
\* "VALUES", the keyword mergeInsert searches for.
Values == <<"V", "A", "L", "U", "E", "S">>
\* The statement delimiter of ReadString, TrimSuffix and the builder.
Delim == ";"
\* "SET autocommit=0;"
SetAutocommit0 ==
    <<"S", "E", "T", " ", "a", "u", "t", "o", "c", "o", "m", "m", "i", "t", "=", "0", ";">>
\* "COMMIT;"
CommitSQL == <<"C", "O", "M", "M", "I", "T", ";">>
\* "SET autocommit=1;"
SetAutocommit1 ==
    <<"S", "E", "T", " ", "a", "u", "t", "o", "c", "o", "m", "m", "i", "t", "=", "1", ";">>
\* fmt.Sprintf("USE %s;", dbName)
UseSQL(dbName) == <<"U", "S", "E", " ">> \o dbName \o <<";">>

(***************************************************************************)
(* util.go                                                                 *)
(***************************************************************************)
\* GetDBNameFromDNS: the text between the only "/" and the only "?" after it.
GetDBNameFromDNS(dns) ==
    LET ss1 == Split(dns, "/")
    IN  IF Len(ss1) = 2
        THEN LET ss2 == Split(ss1[2], "?")
             IN  IF Len(ss2) = 2
                 THEN [name |-> ss2[1], err |-> "nil"]
                 ELSE [name |-> <<>>, err |-> "dns error"]
        ELSE [name |-> <<>>, err |-> "dns error"]

(***************************************************************************)
(* source.go: trim, mergeInsert, DBWrapper                                 *)
(***************************************************************************)
\* trim: leading newlines are removed, then the surrounding whitespace.
trim(s) == TrimSpace(TrimLeft(s, {"\n"}))

\* The loop of mergeInsert over insertSQLs[1:]: `rest` is what is left of the
\* range, i its 0-based index, n = len(insertSQLs), builder the text so far.
RECURSIVE mergeLoop(_, _, _, _)
mergeLoop(rest, i, n, builder) ==
    IF rest = <<>> THEN [sql |-> builder \o <<Delim>>, err |-> "nil"]
    ELSE LET insertSQL == Head(rest)
             b1 == IF i < n - 1 THEN builder \o <<",">> ELSE builder
             valuesIdx == Index(insertSQL, Values)
         IN  IF valuesIdx = 0 - 1
             THEN [sql |-> <<>>, err |-> "invalid SQL: missing VALUES keyword"]
             ELSE LET sqln0 == SubSeq(insertSQL, valuesIdx + 1, Len(insertSQL))
                      sqln1 == TrimPrefix(sqln0, Values)
                      sqln2 == TrimSuffix(sqln1, <<Delim>>)
                  IN  mergeLoop(Tail(rest), i + 1, n, b1 \o sqln2)

\* mergeInsert: the first statement without its delimiter, then for every other
\* statement a comma and the text after its first "VALUES", then one delimiter.
mergeInsert(sqls) ==
    IF Len(sqls) = 0 THEN [sql |-> <<>>, err |-> "no input provided"]
    ELSE mergeLoop(Tail(sqls), 0, Len(sqls), TrimSuffix(sqls[1], <<Delim>>))

\* NewDBWrapper
NewDBWrapper(dryRun) == [dryRun |-> dryRun]

\* A mutant of Exec: the dry-run flag is not looked at.
Exec_IgnoresDryRun(db, dbOk) ==
    [called |-> TRUE, err |-> IF dbOk THEN "nil" ELSE "exec error"]

\* DBWrapper.Exec: in dry-run mode nil is returned and the database is not
\* called; otherwise the database is called (dbOk: the call succeeds) and its
\* error returned.
Exec(db, dbOk) ==
    IF db.dryRun
    THEN [called |-> FALSE, err |-> "nil"]
    ELSE [called |-> TRUE, err |-> IF dbOk THEN "nil" ELSE "exec error"]

(***************************************************************************)
(* The inputs of Source.                                                   *)
(***************************************************************************)
\* "INSERT INTO <table> VALUES <values>;"
InsertStmt(table, values) ==
    InsertInto \o <<" ">> \o table \o <<" ">> \o Values \o <<" ">> \o values \o <<Delim>>

\* The statements a stream is made of, each with its delimiter: an insert
\* into table a, an insert into table b, an insert without VALUES, and a
\* statement that is no insert; all but the first follow a line break, the
\* last also a vertical tab, a no-break space and a space.
StmtPool ==
    { InsertStmt(<<"a">>, <<"(", "1", ")">>),
      <<"\n">> \o InsertStmt(<<"b">>, <<"(", "2", ")">>),
      <<"\n">> \o InsertInto \o <<" ", "a", " ", "S", "E", "L", "E", "C", "T", " ", "3", Delim>>,
      <<"\n", "U+000B", "U+00A0", " ", "U", "N", "L", "O", "C", "K", Delim>> }

\* What may follow the last delimiter: nothing, or an unterminated fragment.
Tails == { <<>>, <<"\n", "E", "N", "D">> }

\* The input streams: up to MaxStmts statements and a tail.
Streams ==
    { Flatten(ss) \o t :
        ss \in UNION { [1..n -> StmtPool] : n \in 0..MaxStmts }, t \in Tails }

\* The data source names: one with a database name ("r@/d?c"), one without
\* the "?" GetDBNameFromDNS needs ("r@/d").
DSNs == { <<"r", "@", "/", "d", "?", "c">>, <<"r", "@", "/", "d">> }

\* The merge sizes WithMergeInsert is given; 0 is the default of sourceOption.
MergeSizes == (0 - 1)..MaxMerge

\* What the io.Reader returns when it is read after its data: io.EOF or a failure.
ReaderErrs == {"EOF", "read error"}

(***************************************************************************)
(* The state of one Source call.                                           *)
(***************************************************************************)
VARIABLES
    dsn,         \* the dns argument
    stream,      \* the data of the reader argument
    o,           \* sourceOption: [dryRun, mergeInsert]
    pos,         \* the number of characters read from the reader
    pc,          \* the statement of Source that runs next
    err,         \* the error Source returns, "nil" for none
    ssql,        \* the local ssql: the statement last prepared for Exec
    insertSQLs,  \* the local insertSQLs: the batch last given to mergeInsert
    readLog,     \* the statements read and trimmed so far, in order
    execLog,     \* the calls of DBWrapper.Exec, in order: [kind, query]
    dbLog,       \* the queries passed to sql.DB.Exec, in order
    row,         \* buildRowData: the row argument, a sequence of cell values
    columnTypes, \* buildRowData: the DatabaseTypeName of every column
    rowString,   \* buildRowData: the text it returned
    rowErr,      \* buildRowData: the error it returned (NilError for none)
    server,      \* Dump: what the MySQL server holds (the environment)
    opts,        \* Dump: the options given to the call
    dbs,         \* Dump: the local dbs, the databases to export
    dbIdx,       \* Dump: the position of the loop over dbs (1-based)
    tables,      \* Dump: the local tables, the tables to export of this database
    tblIdx,      \* Dump: the position of the loop over tables (1-based)
    tt,          \* Dump: the local tt, the type of the table being exported
    doc,         \* Dump: the pieces written to buf (and so to the writer), in order
    curDB,       \* Dump: the database selected on the connection by USE
    rowsErr,     \* Dump: what Rows.Err() of the last SELECT would report
    allTriggers, \* the package variable allTriggers, the trigger cache
    dumps        \* the number of Dump calls of this process so far

\* The state of a buildRowData call.
encVars == <<row, columnTypes, rowString, rowErr>>

\* The state of the Dump calls of a process.
dumpVars ==
    <<server, opts, dbs, dbIdx, tables, tblIdx, tt, doc, curDB, rowsErr, allTriggers, dumps>>

vars ==
    <<dsn, stream, o, pos, pc, err, ssql, insertSQLs, readLog, execLog, dbLog,
      row, columnTypes, rowString, rowErr,
      server, opts, dbs, dbIdx, tables, tblIdx, tt, doc, curDB, rowsErr, allTriggers, dumps>>

\* The error values of mysqldump.go: nil, an error with its message, and a
\* panic (which is no returned value: the call does not return).
NilError == [nil |-> TRUE, panic |-> FALSE, msg |-> <<>>]
Errorf(msg) == [nil |-> FALSE, panic |-> FALSE, msg |-> msg]
Panic(msg) == [nil |-> FALSE, panic |-> TRUE, msg |-> msg]

\* The package variable allTriggers before its first use: a nil map.
NilMap == [nil |-> TRUE, keys |-> <<>>, vals |-> <<>>]

\* No Dump call was made.
DumpIdle ==
    /\ server = <<>>
    /\ opts = <<>>
    /\ dbs = <<>>
    /\ dbIdx = 0
    /\ tables = <<>>
    /\ tblIdx = 0
    /\ tt = <<>>
    /\ doc = <<>>
    /\ curDB = <<>>
    /\ rowsErr = NilError
    /\ allTriggers = NilMap
    /\ dumps = 0

\* No buildRowData call is under way.
EncIdle ==
    /\ row = <<>>
    /\ columnTypes = <<>>
    /\ rowString = <<>>
    /\ rowErr = NilError

\* A mutant of ReadString: at the end of the data the unterminated rest is
\* returned as if it were a statement.
ReadString_KeepsFragment(buf, delim, endErr) ==
    LET i == Index(buf, <<delim>>)
    IN  IF i = 0 - 1
        THEN [line |-> buf, n |-> Len(buf), err |-> IF buf = <<>> THEN endErr ELSE "nil"]
        ELSE [line |-> SubSeq(buf, 1, i + 1), n |-> i + 1, err |-> "nil"]

\* bufio.Reader.ReadString(delim) on the unread data buf: the data up to and
\* including the first delim, or all of it with the reader's error.
ReadString(buf, delim, endErr) ==
    LET i == Index(buf, <<delim>>)
    IN  IF i = 0 - 1
        THEN [line |-> buf, n |-> Len(buf), err |-> endErr]
        ELSE [line |-> SubSeq(buf, 1, i + 1), n |-> i + 1, err |-> "nil"]

\* The unread data of the reader after p characters.
Unread(p) == SubSeq(stream, p + 1, Len(stream))

\* A mutant of ShouldMerge: the merge size is not looked at.
ShouldMerge_AnySize(opt, s) == HasPrefix(s, InsertInto)

\* The condition of the merge branch of Source.
ShouldMerge(opt, s) == opt.mergeInsert > 1 /\ HasPrefix(s, InsertInto)

\* A mutant of lookahead: the loop runs once more (i < n instead of i < n-1).
RECURSIVE lookahead_OneMore(_, _, _, _, _, _)
lookahead_OneMore(p, i, n, sqls, read, endErr) ==
    IF ~(i < n) THEN [sqls |-> sqls, read |-> read, pos |-> p, err |-> "nil"]
    ELSE LET rd == ReadString(Unread(p), Delim, endErr)
         IN  IF rd.err # "nil"
             THEN [sqls |-> sqls, read |-> read, pos |-> p + rd.n,
                   err |-> IF rd.err = "EOF" THEN "nil" ELSE rd.err]
             ELSE LET ssql2 == trim(rd.line)
                  IN  IF HasPrefix(ssql2, InsertInto)
                      THEN lookahead_OneMore(p + rd.n, i + 1, n,
                                             Append(sqls, ssql2), Append(read, ssql2), endErr)
                      ELSE [sqls |-> sqls, read |-> Append(read, ssql2),
                            pos |-> p + rd.n, err |-> "nil"]

\* The lookahead loop of Source: i is the loop counter, p the read position,
\* sqls the batch so far, read the statements read so far.  A statement that
\* does not begin with INSERT INTO ends the loop after it was read (ssql2 is
\* not used again); io.EOF ends the loop; another read error (endErr: what the
\* reader returns after its data) is returned.
RECURSIVE lookahead(_, _, _, _, _, _)
lookahead(p, i, n, sqls, read, endErr) ==
    IF ~(i < n - 1) THEN [sqls |-> sqls, read |-> read, pos |-> p, err |-> "nil"]
    ELSE LET rd == ReadString(Unread(p), Delim, endErr)
         IN  IF rd.err # "nil"
             THEN [sqls |-> sqls, read |-> read, pos |-> p + rd.n,
                   err |-> IF rd.err = "EOF" THEN "nil" ELSE rd.err]
             ELSE LET ssql2 == trim(rd.line)
                  IN  IF HasPrefix(ssql2, InsertInto)
                      THEN lookahead(p + rd.n, i + 1, n,
                                     Append(sqls, ssql2), Append(read, ssql2), endErr)
                      ELSE [sqls |-> sqls, read |-> Append(read, ssql2),
                            pos |-> p + rd.n, err |-> "nil"]

\* A mutant of AfterExec: a failed call does not end Source.
AfterExec_Continues(e, next) == next

\* `if err != nil { return err }` after a call: where Source goes on.
AfterExec(e, next) == IF e # "nil" THEN "Return" ELSE next

\* The statement after the read loop.
AfterLoop == "Commit"

\* One call dbWrapper.Exec(query) of Source and the check of its error.
ExecCall(kind, query, dbOk, next) ==
    LET r == Exec(NewDBWrapper(o.dryRun), dbOk)
    IN  /\ execLog' = Append(execLog, [kind |-> kind, query |-> query])
        /\ dbLog' = IF r.called THEN Append(dbLog, query) ELSE dbLog
        /\ err' = r.err
        /\ pc' = AfterExec(r.err, next)

Init ==
    /\ dsn \in DSNs
    /\ stream \in Streams
    /\ o \in [dryRun : BOOLEAN, mergeInsert : MergeSizes]
    /\ pos = 0
    /\ pc = "Open"
    /\ err = "nil"
    /\ ssql = <<>>
    /\ insertSQLs = <<>>
    /\ readLog = <<>>
    /\ execLog = <<>>
    /\ dbLog = <<>>
    /\ EncIdle
    /\ DumpIdle

\* GetDBNameFromDNS fails: Source returns its error.
DNSError ==
    /\ pc = "Open"
    /\ GetDBNameFromDNS(dsn).err # "nil"
    /\ err' = GetDBNameFromDNS(dsn).err
    /\ pc' = "Return"
    /\ UNCHANGED <<dsn, stream, o, pos, ssql, insertSQLs, readLog, execLog, dbLog>>
    /\ UNCHANGED encVars
    /\ UNCHANGED dumpVars

\* sql.Open succeeds or fails.
OpenDB ==
    /\ pc = "Open"
    /\ GetDBNameFromDNS(dsn).err = "nil"
    /\ \E openOk \in BOOLEAN :
        /\ err' = IF openOk THEN "nil" ELSE "open error"
        /\ pc' = IF openOk THEN "Use" ELSE "Return"
    /\ UNCHANGED <<dsn, stream, o, pos, ssql, insertSQLs, readLog, execLog, dbLog>>
    /\ UNCHANGED encVars
    /\ UNCHANGED dumpVars

\* dbWrapper.Exec("USE <db>;")
UseDB ==
    /\ pc = "Use"
    /\ \E dbOk \in BOOLEAN :
        ExecCall("use", UseSQL(GetDBNameFromDNS(dsn).name), dbOk, "Autocommit0")
    /\ UNCHANGED <<dsn, stream, o, pos, ssql, insertSQLs, readLog>>
    /\ UNCHANGED encVars
    /\ UNCHANGED dumpVars

\* dbWrapper.Exec("SET autocommit=0;")
DisableAutocommit ==
    /\ pc = "Autocommit0"
    /\ \E dbOk \in BOOLEAN : ExecCall("autocommit0", SetAutocommit0, dbOk, "Loop")
    /\ UNCHANGED <<dsn, stream, o, pos, ssql, insertSQLs, readLog>>
    /\ UNCHANGED encVars
    /\ UNCHANGED dumpVars

\* The first ReadString of an iteration returns io.EOF: break.
LoopEOF ==
    /\ pc = "Loop"
    /\ LET rd == ReadString(Unread(pos), Delim, "EOF")
       IN  /\ rd.err = "EOF"
           /\ pos' = pos + rd.n
    /\ pc' = AfterLoop
    /\ UNCHANGED <<dsn, stream, o, err, ssql, insertSQLs, readLog, execLog, dbLog>>
    /\ UNCHANGED encVars
    /\ UNCHANGED dumpVars

\* The first ReadString of an iteration fails: Source returns the error.
LoopReadError ==
    /\ pc = "Loop"
    /\ LET rd == ReadString(Unread(pos), Delim, "read error")
       IN  /\ rd.err \notin {"nil", "EOF"}
           /\ pos' = pos + rd.n
           /\ err' = rd.err
    /\ pc' = "Return"
    /\ UNCHANGED <<dsn, stream, o, ssql, insertSQLs, readLog, execLog, dbLog>>
    /\ UNCHANGED encVars
    /\ UNCHANGED dumpVars

\* An iteration without the merge branch: read, trim, Exec.
LoopExec ==
    /\ pc = "Loop"
    /\ LET rd == ReadString(Unread(pos), Delim, "EOF")
           s == trim(rd.line)
       IN  /\ rd.err = "nil"
           /\ ~ShouldMerge(o, s)
           /\ pos' = pos + rd.n
           /\ ssql' = s
           /\ readLog' = Append(readLog, s)
           /\ \E dbOk \in BOOLEAN : ExecCall("stmt", s, dbOk, "Loop")
    /\ UNCHANGED <<dsn, stream, o, insertSQLs>>
    /\ UNCHANGED encVars
    /\ UNCHANGED dumpVars

\* An iteration with the merge branch whose lookahead hits a read error.
LookaheadReadError ==
    /\ pc = "Loop"
    /\ \E endErr \in ReaderErrs :
       LET rd == ReadString(Unread(pos), Delim, endErr)
           s == trim(rd.line)
           la == lookahead(pos + rd.n, 0, o.mergeInsert, <<s>>, <<s>>, endErr)
       IN  /\ rd.err = "nil"
           /\ ShouldMerge(o, s)
           /\ la.err # "nil"
           /\ pos' = la.pos
           /\ ssql' = s
           /\ insertSQLs' = la.sqls
           /\ readLog' = readLog \o la.read
           /\ err' = la.err
    /\ pc' = "Return"
    /\ UNCHANGED <<dsn, stream, o, execLog, dbLog>>
    /\ UNCHANGED encVars
    /\ UNCHANGED dumpVars

\* An iteration with the merge branch in which mergeInsert fails.
LoopMergeError ==
    /\ pc = "Loop"
    /\ \E endErr \in ReaderErrs :
       LET rd == ReadString(Unread(pos), Delim, endErr)
           s == trim(rd.line)
           la == lookahead(pos + rd.n, 0, o.mergeInsert, <<s>>, <<s>>, endErr)
           m == mergeInsert(la.sqls)
       IN  /\ rd.err = "nil"
           /\ ShouldMerge(o, s)
           /\ la.err = "nil"
           /\ m.err # "nil"
           /\ pos' = la.pos
           /\ ssql' = m.sql
           /\ insertSQLs' = la.sqls
           /\ readLog' = readLog \o la.read
           /\ err' = m.err
    /\ pc' = "Return"
    /\ UNCHANGED <<dsn, stream, o, execLog, dbLog>>
    /\ UNCHANGED encVars
    /\ UNCHANGED dumpVars

\* An iteration with the merge branch: read, trim, lookahead, mergeInsert, Exec.
LoopMergeExec ==
    /\ pc = "Loop"
    /\ \E endErr \in ReaderErrs :
       LET rd == ReadString(Unread(pos), Delim, endErr)
           s == trim(rd.line)
           la == lookahead(pos + rd.n, 0, o.mergeInsert, <<s>>, <<s>>, endErr)
           m == mergeInsert(la.sqls)
       IN  /\ rd.err = "nil"
           /\ ShouldMerge(o, s)
           /\ la.err = "nil"
           /\ m.err = "nil"
           /\ pos' = la.pos
           /\ ssql' = m.sql
           /\ insertSQLs' = la.sqls
           /\ readLog' = readLog \o la.read
           /\ \E dbOk \in BOOLEAN : ExecCall("stmt", m.sql, dbOk, "Loop")
    /\ UNCHANGED <<dsn, stream, o>>
    /\ UNCHANGED encVars
    /\ UNCHANGED dumpVars

\* dbWrapper.Exec("COMMIT;")
Commit ==
    /\ pc = "Commit"
    /\ \E dbOk \in BOOLEAN : ExecCall("commit", CommitSQL, dbOk, "Autocommit1")
    /\ UNCHANGED <<dsn, stream, o, pos, ssql, insertSQLs, readLog>>
    /\ UNCHANGED encVars
    /\ UNCHANGED dumpVars

\* dbWrapper.Exec("SET autocommit=1;") and the return of Source.
EnableAutocommit ==
    /\ pc = "Autocommit1"
    /\ \E dbOk \in BOOLEAN : ExecCall("autocommit1", SetAutocommit1, dbOk, "Return")
    /\ UNCHANGED <<dsn, stream, o, pos, ssql, insertSQLs, readLog>>
    /\ UNCHANGED encVars
    /\ UNCHANGED dumpVars

Next ==
    \/ DNSError
    \/ OpenDB
    \/ UseDB
    \/ DisableAutocommit
    \/ LoopEOF
    \/ LoopReadError
    \/ LoopExec
    \/ LookaheadReadError
    \/ LoopMergeError
    \/ LoopMergeExec
    \/ Commit
    \/ EnableAutocommit

Spec == Init /\ [][Next]_vars

(***************************************************************************)
(* What the properties of Source are stated with.                          *)
(***************************************************************************)
\* c without its leading and trailing whitespace, by positions.
Strip(c) ==
    LET keep == {i \in 1..Len(c) : ~IsSpace(c[i])}
    IN  IF keep = {} THEN <<>>
        ELSE SubSeq(c, CHOOSE i \in keep : \A j \in keep : i <= j,
                       CHOOSE i \in keep : \A j \in keep : j <= i)

\* The positions of the delimiters of s.
DelimIdx(s) == {i \in 1..Len(s) : s[i] = Delim}

\* The statements of s from position i on, the current chunk starting at from.
RECURSIVE ChunksScan(_, _, _)
ChunksScan(s, from, i) ==
    IF i > Len(s) THEN <<>>
    ELSE IF s[i] = Delim
         THEN <<Strip(SubSeq(s, from, i))>> \o ChunksScan(s, i + 1, i + 1)
         ELSE ChunksScan(s, from, i + 1)

\* The statements of s: its chunks that end at a delimiter, each stripped.
Chunks(s) == ChunksScan(s, 1, 1)

\* The text of s after its last delimiter.
TailOf(s) ==
    IF DelimIdx(s) = {} THEN s
    ELSE SubSeq(s, (CHOOSE i \in DelimIdx(s) : \A j \in DelimIdx(s) : j <= i) + 1, Len(s))

\* a is a prefix of b (sequences of statements).
IsPrefixSeq(a, b) == Len(a) <= Len(b) /\ SubSeq(b, 1, Len(a)) = a

\* How often x occurs in the sequence q.
Count(x, q) == Cardinality({i \in DOMAIN q : q[i] = x})

\* The kinds of the Exec calls so far, in order.
Kinds == [i \in DOMAIN execLog |-> execLog[i].kind]

\* The queries of the stream statements sent so far, in order.
StmtQueries ==
    LET es == SelectSeq(execLog, LAMBDA e : e.kind = "stmt")
    IN  [i \in DOMAIN es |-> es[i].query]

\* Source has returned nil.
Succeeded == pc = "Return" /\ err = "nil"

\* Every query of qs begins with the text of a statement of cs, the
\* statements so used being in the order of cs.
RECURSIVE InStreamOrder(_, _)
InStreamOrder(qs, cs) ==
    IF qs = <<>> THEN TRUE
    ELSE IF cs = <<>> THEN FALSE
    ELSE IF HasPrefix(Head(qs), TrimSuffix(Head(cs), <<Delim>>))
         THEN InStreamOrder(Tail(qs), Tail(cs))
         ELSE InStreamOrder(qs, Tail(cs))

\* The calls are a beginning of: first, second, statements, COMMIT, SET autocommit=1.
OrderedAs(first, second) ==
    LET rank(k) == CASE k = first -> 1
                     [] k = second -> 2
                     [] k = "stmt" -> 3
                     [] k = "commit" -> 4
                     [] k = "autocommit1" -> 5
    IN  \A i \in DOMAIN Kinds :
            IF i = 1 THEN rank(Kinds[1]) = 1
            ELSE \/ rank(Kinds[i]) = rank(Kinds[i - 1]) + 1
                 \/ rank(Kinds[i]) = 3 /\ rank(Kinds[i - 1]) = 3
                 \/ rank(Kinds[i]) = 4 /\ rank(Kinds[i - 1]) = 2

(***************************************************************************)
(* The properties of Source.                                               *)
(***************************************************************************)
\* C1: with merge size N > 1, a statement that does not begin with INSERT INTO
\* is never lost, also when a lookahead reads it: after a successful run every
\* such statement of the stream has been sent as often as the stream holds it.
C1_LookaheadStatementNotLost ==
    (Succeeded /\ o.mergeInsert > 1) =>
        \A k \in DOMAIN Chunks(stream) :
            LET c == Chunks(stream)[k]
            IN  ~HasPrefix(c, InsertInto) =>
                    Count(c, StmtQueries) = Count(c, Chunks(stream))

\* The value lists of an insertion c: its text after VALUES, without the
\* delimiter and the whitespace around it.
ValueListsOf(c) ==
    Strip(TrimSuffix(SubSeq(c, Index(c, Values) + Len(Values) + 1, Len(c)), <<Delim>>))

\* The statement c of the stream was sent: alone, or, an insertion with
\* VALUES, with its value lists inside a merged statement.
StatementSent(c) ==
    \E i \in DOMAIN StmtQueries :
        \/ StmtQueries[i] = c
        \/ /\ HasPrefix(c, InsertInto)
           /\ Index(c, Values) >= 0
           /\ StmtQueries[i] # c
           /\ HasPrefix(StmtQueries[i], InsertInto)
           /\ Index(StmtQueries[i], ValueListsOf(c)) >= 0

\* C3: a successful run has sent SET autocommit=0, then USE, then every
\* statement of the stream in stream order, then exactly one COMMIT, then
\* SET autocommit=1; no COMMIT comes before the last statement and autocommit
\* is not enabled before the COMMIT.
C3_AutocommitBeforeUse ==
    Succeeded =>
        /\ OrderedAs("autocommit0", "use")
        /\ Kinds[Len(Kinds)] = "autocommit1"
        /\ Count("commit", Kinds) = 1
        /\ InStreamOrder(StmtQueries, Chunks(stream))
        /\ \A k \in DOMAIN Chunks(stream) : StatementSent(Chunks(stream)[k])

\* C4: a step in which a call fails ends Source with that error, and once
\* Source has an error nothing more is sent to the connection.
C4_NothingSentAfterFailure ==
    [][ /\ err' # "nil" => pc' = "Return"
        /\ err # "nil" => execLog' = execLog /\ dbLog' = dbLog ]_vars

\* A stream statement failed while statements of the stream were still unread.
C4_Witness ==
    /\ err = "exec error"
    /\ pc = "Return"
    /\ execLog[Len(execLog)].kind = "stmt"
    /\ DelimIdx(Unread(pos)) # {}

\* C5: in dry-run mode the database is never called and no Exec call fails.
C5_DryRunNeverCallsDatabase ==
    o.dryRun => dbLog = <<>> /\ err # "exec error"

\* A whole dry run: setup, stream statements, COMMIT and the autocommit reset.
C5_Witness == o.dryRun /\ Succeeded /\ Len(StmtQueries) >= 2

\* C6: the statements read are, in order, the stripped chunks of the stream
\* that end at a delimiter; after the loop all of them were read; the text
\* after the last delimiter is in no query; io.EOF is never the error of
\* Source, and the loop left at the end of the stream leaves no error.
C6_StatementsAreTrimmedChunks ==
    /\ LET cs == Chunks(stream)
       IN  /\ IsPrefixSeq(readLog, cs)
           /\ (pc \in {"Commit", "Autocommit1"} \/ Succeeded) => readLog = cs
    /\ LET t == Strip(TailOf(stream))
       IN  t # <<>> => \A i \in DOMAIN execLog : Index(execLog[i].query, t) = 0 - 1
    /\ err # "EOF"
    /\ (pc = "Commit" /\ pos = Len(stream)) => err = "nil"

\* A successful run over a stream with statements and an unterminated tail.
C6_Witness ==
    /\ Succeeded
    /\ TailOf(stream) # <<>>
    /\ Len(readLog) >= 2
    /\ Len(stream) > Len(Flatten(readLog))

\* C8: a batch of several statements that holds a statement without VALUES
\* makes mergeInsert fail and Source return that error at once (unless reading
\* the batch failed before), so that no merged statement is sent for it.
C8_BatchWithoutValuesFails ==
    (/\ Len(insertSQLs) > 1
     /\ \E i \in DOMAIN insertSQLs : Index(insertSQLs[i], Values) = 0 - 1
     /\ err # "read error")
    => /\ err = "invalid SQL: missing VALUES keyword"
       /\ pc = "Return"

\* The text of a statement before its VALUES keyword.
PrefixOf(stmt) == SubSeq(stmt, 1, Index(stmt, Values))

\* C9: the statements merged into one statement are consecutive statements of
\* the stream, in order, and those that have a VALUES keyword share their
\* prefix (table and column list).
C9_OnlySamePrefixMerged ==
    (Len(insertSQLs) > 1 /\ err = "nil") =>
        /\ \A i, j \in DOMAIN insertSQLs :
              (Index(insertSQLs[i], Values) >= 0 /\ Index(insertSQLs[j], Values) >= 0)
                  => PrefixOf(insertSQLs[i]) = PrefixOf(insertSQLs[j])
        /\ \E k \in 0..Len(readLog) :
              SubSeq(readLog, k + 1, k + Len(insertSQLs)) = insertSQLs

\* C10: with merge size <= 1 no batch is built, every statement read is sent
\* as read, in order, and a successful run has sent as many statements as the
\* stream has delimiters.
C10_NoMergePassThrough ==
    o.mergeInsert <= 1 =>
        /\ insertSQLs = <<>>
        /\ StmtQueries = readLog
        /\ LET cs == Chunks(stream)
           IN  /\ IsPrefixSeq(StmtQueries, cs)
               /\ Succeeded => StmtQueries = cs
        /\ Succeeded => Len(StmtQueries) = Cardinality(DelimIdx(stream))

\* A successful run with merge size <= 1 over two consecutive inserts.
C10_Witness ==
    /\ o.mergeInsert <= 1
    /\ Succeeded
    /\ \E i \in 1..(Len(StmtQueries) - 1) :
          /\ HasPrefix(StmtQueries[i], InsertInto)
          /\ HasPrefix(StmtQueries[i + 1], InsertInto)

\* C15: with merge size N > 1, a step that reads a statement beginning with
\* INSERT INTO builds a batch of 1..N statements, all beginning with INSERT
\* INTO, that are the statements read in this step in stream order (at most
\* one further statement was read, and it is no insertion); the batch is
\* closed at N statements, at a statement that is no insertion, or at the end
\* of the data; and the step sends the merged batch unless reading or merging
\* failed, so a batch open at the end of the stream is sent before COMMIT.
C15_BatchOfAtMostN ==
    [][ (/\ pc = "Loop"
         /\ o.mergeInsert > 1
         /\ Len(readLog') > Len(readLog)
         /\ HasPrefix(readLog'[Len(readLog) + 1], InsertInto))
        => LET new == SubSeq(readLog', Len(readLog) + 1, Len(readLog'))
               batch == insertSQLs'
               n == Len(batch)
           IN  /\ n \in 1..o.mergeInsert
               /\ \A i \in DOMAIN batch : HasPrefix(batch[i], InsertInto)
               /\ SubSeq(new, 1, n) = batch
               /\ Len(new) \in {n, n + 1}
               /\ Len(new) = n + 1 => ~HasPrefix(new[n + 1], InsertInto)
               /\ IsPrefixSeq(readLog', Chunks(stream))
               /\ \/ n = o.mergeInsert
                  \/ Len(new) = n + 1
                  \/ DelimIdx(SubSeq(stream, pos' + 1, Len(stream))) = {}
               /\ \/ /\ execLog' = Append(execLog, [kind |-> "stmt",
                                                     query |-> mergeInsert(batch).sql])
                     /\ "commit" \notin {execLog[i].kind : i \in DOMAIN execLog}
                  \/ /\ err' \in {"read error", "invalid SQL: missing VALUES keyword"}
                     /\ execLog' = execLog
      ]_vars

\* A run that ended well after a batch smaller than the merge size was closed
\* by the end of the stream and sent.
C15_Witness ==
    /\ Succeeded
    /\ o.mergeInsert > 1
    /\ Len(insertSQLs) > 1
    /\ Len(insertSQLs) < o.mergeInsert
    /\ SubSeq(readLog, Len(readLog) - Len(insertSQLs) + 1, Len(readLog)) = insertSQLs
    /\ StmtQueries[Len(StmtQueries)] = mergeInsert(insertSQLs).sql

(***************************************************************************)
(* mergeInsert on its own: the batch is drawn from statements of the form  *)
(* <prefix> VALUES<values>;                                                *)
(***************************************************************************)
\* Longest batch given to mergeInsert.
MaxBatch == 3

\* The prefixes (table and column list): a plain one, and one whose column
\* name contains the letters VALUES.
MergePrefixes ==
    { InsertInto \o <<" ", "a">>,
      InsertInto \o <<" ", "a", " ", "(", "M">> \o Values \o <<")">> }

\* The value lists, as they follow the VALUES keyword: one row, two rows, and
\* a row whose text holds the letters VALUES.
MergeValueLists ==
    { <<" ", "(", "1", ")">>,
      <<" ", "(", "2", ")", ",", "(", "3", ")">>,
      <<" ", "(", "'">> \o Values \o <<"'", ")">> }

\* The statement <prefix> VALUES<values>;
Render(prefix, values) == prefix \o <<" ">> \o Values \o values \o <<Delim>>

\* The batches: up to MaxBatch statements, every prefix with every value list.
MergeInputs ==
    LET pool == { Render(pv[1], pv[2]) : pv \in MergePrefixes \X MergeValueLists }
    IN  UNION { [1..n -> pool] : n \in 0..MaxBatch }

InitMerge ==
    /\ dsn = <<>>
    /\ stream = <<>>
    /\ o = [dryRun |-> FALSE, mergeInsert |-> 0]
    /\ pos = 0
    /\ pc = "mergeInsert"
    /\ err = "nil"
    /\ ssql = <<>>
    /\ insertSQLs \in MergeInputs
    /\ readLog = <<>>
    /\ execLog = <<>>
    /\ dbLog = <<>>
    /\ EncIdle
    /\ DumpIdle

\* One call mergeInsert(insertSQLs): ssql and err take what it returns.
CallMergeInsert ==
    /\ pc = "mergeInsert"
    /\ ssql' = mergeInsert(insertSQLs).sql
    /\ err' = mergeInsert(insertSQLs).err
    /\ pc' = "Return"
    /\ UNCHANGED <<dsn, stream, o, pos, insertSQLs, readLog, execLog, dbLog>>
    /\ UNCHANGED encVars
    /\ UNCHANGED dumpVars

NextMerge == CallMergeInsert

SpecMerge == InitMerge /\ [][NextMerge]_vars

\* The value list of a statement of a batch: what follows its VALUES keyword,
\* without the delimiter.
ValueListOf(stmt) ==
    (CHOOSE pv \in MergePrefixes \X MergeValueLists : Render(pv[1], pv[2]) = stmt)[2]

\* C2: for a non-empty batch mergeInsert returns, without error, the first
\* statement without its delimiter, then for every further statement, in
\* order, a comma and its value list, then one delimiter.
C2_MergeConcatenatesValueLists ==
    (pc = "Return" /\ insertSQLs # <<>>) =>
        /\ err = "nil"
        /\ ssql = TrimSuffix(insertSQLs[1], <<Delim>>)
                  \o Flatten([i \in 1..(Len(insertSQLs) - 1) |->
                                <<",">> \o ValueListOf(insertSQLs[i + 1])])
                  \o <<Delim>>

(***************************************************************************)
(* mysqldump.go: buildRowData                                              *)
(***************************************************************************)
\* Longest text value of a character column.
MaxTextLen == 2
\* Most columns of a row of sample columns.
MaxCols == 2

\* time.Time: the fields that the layouts of buildRowData print.
ZeroTime == [year |-> 1, month |-> 1, day |-> 1, hour |-> 0, min |-> 0, sec |-> 0]

\* The values of a row, as database/sql hands them over in an interface{}:
\* kind is the dynamic type, and the field of that kind holds the value (a
\* float64 is held in num as a count of millionths).
NilCell == [kind |-> "nil", bytes |-> <<>>, num |-> 0, flag |-> FALSE, time |-> ZeroTime]
BytesCell(b) == [NilCell EXCEPT !.kind = "bytes", !.bytes = b]
Int64Cell(n) == [NilCell EXCEPT !.kind = "int64", !.num = n]
Float64Cell(micro) == [NilCell EXCEPT !.kind = "float64", !.num = micro]
BoolCell(b) == [NilCell EXCEPT !.kind = "bool", !.flag = b]
TimeCell(t) == [NilCell EXCEPT !.kind = "time", !.time = t]

\* strings.Replace(s, old, new, -1) for a non-empty old.
RECURSIVE ReplaceAll(_, _, _)
ReplaceAll(s, old, new) ==
    IF s = <<>> THEN <<>>
    ELSE IF HasPrefix(s, old)
         THEN new \o ReplaceAll(SubSeq(s, Len(old) + 1, Len(s)), old, new)
         ELSE <<Head(s)>> \o ReplaceAll(Tail(s), old, new)

\* case "TINYINT", "SMALLINT", "MEDIUMINT", "INT", "INTEGER", "BIGINT"
IntegerTypes ==
    { <<"T", "I", "N", "Y", "I", "N", "T">>,
      <<"S", "M", "A", "L", "L", "I", "N", "T">>,
      <<"M", "E", "D", "I", "U", "M", "I", "N", "T">>,
      <<"I", "N", "T">>,
      <<"I", "N", "T", "E", "G", "E", "R">>,
      <<"B", "I", "G", "I", "N", "T">> }

\* case "FLOAT", "DOUBLE"
FloatTypes ==
    { <<"F", "L", "O", "A", "T">>,
      <<"D", "O", "U", "B", "L", "E">> }

\* case "DECIMAL", "DEC"
DecimalTypes ==
    { <<"D", "E", "C", "I", "M", "A", "L">>,
      <<"D", "E", "C">> }

\* case "CHAR", "VARCHAR", "TINYTEXT", "TEXT", "MEDIUMTEXT", "LONGTEXT"
TextTypes ==
    { <<"C", "H", "A", "R">>,
      <<"V", "A", "R", "C", "H", "A", "R">>,
      <<"T", "I", "N", "Y", "T", "E", "X", "T">>,
      <<"T", "E", "X", "T">>,
      <<"M", "E", "D", "I", "U", "M", "T", "E", "X", "T">>,
      <<"L", "O", "N", "G", "T", "E", "X", "T">> }

\* case "BIT", "BINARY", "VARBINARY", "TINYBLOB", "BLOB", "MEDIUMBLOB", "LONGBLOB"
BinaryTypes ==
    { <<"B", "I", "T">>,
      <<"B", "I", "N", "A", "R", "Y">>,
      <<"V", "A", "R", "B", "I", "N", "A", "R", "Y">>,
      <<"T", "I", "N", "Y", "B", "L", "O", "B">>,
      <<"B", "L", "O", "B">>,
      <<"M", "E", "D", "I", "U", "M", "B", "L", "O", "B">>,
      <<"L", "O", "N", "G", "B", "L", "O", "B">> }

\* case "ENUM", "SET"
EnumSetTypes ==
    { <<"E", "N", "U", "M">>,
      <<"S", "E", "T">> }

\* case "BOOL", "BOOLEAN"
BoolTypes ==
    { <<"B", "O", "O", "L">>,
      <<"B", "O", "O", "L", "E", "A", "N">> }

\* "DATE"
TypeDate == <<"D", "A", "T", "E">>

\* "DATETIME"
TypeDatetime == <<"D", "A", "T", "E", "T", "I", "M", "E">>

\* "TIMESTAMP"
TypeTimestamp == <<"T", "I", "M", "E", "S", "T", "A", "M", "P">>

\* "TIME"
TypeTime == <<"T", "I", "M", "E">>

\* "YEAR"
TypeYear == <<"Y", "E", "A", "R">>

\* "JSON"
TypeJSON == <<"J", "S", "O", "N">>

\* "UNSIGNED"
Unsigned == <<"U", "N", "S", "I", "G", "N", "E", "D">>

\* The type name buildRowData switches on: DatabaseTypeName without
\* "UNSIGNED" and without spaces.
NormalizeType(name) == ReplaceAll(ReplaceAll(name, Unsigned, <<>>), <<" ">>, <<>>)

\* The decimal digit d as a character.
Digit(d) == <<"0", "1", "2", "3", "4", "5", "6", "7", "8", "9">>[d + 1]

\* The decimal digits of n >= 0.
RECURSIVE Digits(_)
Digits(n) == IF n < 10 THEN <<Digit(n)>> ELSE Digits(n \div 10) \o <<Digit(n % 10)>>

\* fmt.Sprintf("%d", n) for an int64 n.
Itoa(n) == IF n < 0 THEN <<"-">> \o Digits(0 - n) ELSE Digits(n)

\* n >= 0 in at least w digits, padded with zeros on the left.
RECURSIVE Pad(_, _)
Pad(n, w) ==
    LET d == Digits(n)
    IN  IF Len(d) >= w THEN d ELSE <<"0">> \o Pad(n, w - 1)

\* time.Time.Format("2006-01-02")
FormatDate(t) == Pad(t.year, 4) \o <<"-">> \o Pad(t.month, 2) \o <<"-">> \o Pad(t.day, 2)

\* time.Time.Format("2006-01-02 15:04:05")
FormatDateTime(t) ==
    FormatDate(t) \o <<" ">> \o Pad(t.hour, 2) \o <<":">> \o Pad(t.min, 2)
                  \o <<":">> \o Pad(t.sec, 2)

\* fmt.Sprintf("%s", col) for the values the model gives it: bytes are
\* printed as text, an int64 or a bool as the bad-verb text of fmt.
SprintS(col) ==
    CASE col.kind = "bytes" -> col.bytes
      [] col.kind = "int64" ->
            <<"%", "!", "s", "(", "i", "n", "t", "6", "4", "=">> \o Itoa(col.num) \o <<")">>
      [] col.kind = "bool" ->
            <<"%", "!", "s", "(", "b", "o", "o", "l", "=">>
            \o (IF col.flag THEN <<"t", "r", "u", "e">> ELSE <<"f", "a", "l", "s", "e">>)
            \o <<")">>

\* fmt.Sprintf("%d", col) for an int64.
SprintD(col) == CASE col.kind = "int64" -> Itoa(col.num)

\* fmt.Sprintf("%f", col) for a float64 of col.num millionths: six
\* digits follow the point.
SprintF(col) ==
    CASE col.kind = "float64" ->
        LET a == IF col.num < 0 THEN 0 - col.num ELSE col.num
        IN  (IF col.num < 0 THEN <<"-">> ELSE <<>>)
            \o Digits(a \div 1000000) \o <<".">> \o Pad(a % 1000000, 6)

\* The two upper-case hexadecimal digits of a byte, for the bytes the model
\* gives to "%X".
HexOfByte(c) ==
    CASE c = "a" -> <<"6", "1">>
      [] c = "b" -> <<"6", "2">>
      [] c = "c" -> <<"6", "3">>
      [] c = "'" -> <<"2", "7">>
      [] c = "\n" -> <<"0", "A">>

\* fmt.Sprintf("%X", col) for bytes.
SprintX(col) ==
    CASE col.kind = "bytes" -> Flatten([i \in DOMAIN col.bytes |-> HexOfByte(col.bytes[i])])

\* strings.NewReplacer("\n", "\\n", "'", "\\'", "\r", "\\r", "\"", "\\\""),
\* on one character.
EscapeChar(c) ==
    CASE c = "\n" -> <<"\\", "n">>
      [] c = "'" -> <<"\\", "'">>
      [] c = "\r" -> <<"\\", "r">>
      [] c = "\"" -> <<"\\", "\"">>
      [] OTHER -> <<c>>

\* Replacer.Replace: every character is replaced on its own, in one pass.
EscapeText(s) == Flatten([i \in DOMAIN s |-> EscapeChar(s[i])])

\* 'text'
Quoted(text) == <<"'">> \o text \o <<"'">>

\* "NULL"
NullLiteral == <<"N", "U", "L", "L">>

\* "unsupported type: "
UnsupportedPrefix == <<"u", "n", "s", "u", "p", "p", "o", "r", "t", "e", "d", " ", "t", "y", "p", "e", ":", " ">>

\* What one pass of the loop body does with a cell: it appends a literal to
\* ssql, or (stop) it leaves buildRowData with `return "", e`.
Literal(text) == [stop |-> FALSE, lit |-> text, err |-> NilError]
ReturnEmpty(e) == [stop |-> TRUE, lit |-> <<>>, err |-> e]

\* The switch on the type name, for a cell that is not nil.  The returns of
\* the DATE, DATETIME, TIMESTAMP, TIME and YEAR cases return the named result
\* err, which is nil there; col.(bool) panics on a value that is no bool.
renderSwitch(col, typeName) ==
    LET Type == NormalizeType(typeName)
    IN  CASE Type \in IntegerTypes ->
                IF col.kind = "bytes" THEN Literal(col.bytes) ELSE Literal(SprintD(col))
          [] Type \in FloatTypes ->
                IF col.kind = "bytes" THEN Literal(col.bytes) ELSE Literal(SprintF(col))
          [] Type \in DecimalTypes -> Literal(SprintS(col))
          [] Type = TypeDate ->
                IF col.kind = "time" THEN Literal(Quoted(FormatDate(col.time)))
                ELSE ReturnEmpty(NilError)
          [] Type = TypeDatetime ->
                IF col.kind = "time" THEN Literal(Quoted(FormatDateTime(col.time)))
                ELSE ReturnEmpty(NilError)
          [] Type = TypeTimestamp ->
                IF col.kind = "time" THEN Literal(Quoted(FormatDateTime(col.time)))
                ELSE ReturnEmpty(NilError)
          [] Type = TypeTime ->
                IF col.kind = "bytes" THEN Literal(Quoted(col.bytes)) ELSE ReturnEmpty(NilError)
          [] Type = TypeYear ->
                IF col.kind = "bytes" THEN Literal(col.bytes) ELSE ReturnEmpty(NilError)
          [] Type \in TextTypes -> Literal(Quoted(EscapeText(SprintS(col))))
          [] Type \in BinaryTypes -> Literal(<<"0", "x">> \o SprintX(col))
          [] Type \in EnumSetTypes -> Literal(Quoted(SprintS(col)))
          [] Type \in BoolTypes ->
                IF col.kind = "bool"
                THEN Literal(IF col.flag THEN <<"t", "r", "u", "e">>
                                         ELSE <<"f", "a", "l", "s", "e">>)
                ELSE ReturnEmpty(Panic(<<"i", "n", "t", "e", "r", "f", "a", "c", "e", " ", "c", "o", "n", "v", "e", "r", "s", "i", "o", "n">>))
          [] Type = TypeJSON -> Literal(Quoted(SprintS(col)))
          [] OTHER -> ReturnEmpty(Errorf(UnsupportedPrefix \o Type))

\* A mutant of renderCell: a nil cell of a character column goes through the
\* quoting of the text case.
renderCell_NullQuotedAsText(col, typeName) ==
    IF col.kind = "nil"
    THEN IF NormalizeType(typeName) \in TextTypes
         THEN Literal(Quoted(NullLiteral))
         ELSE Literal(NullLiteral)
    ELSE renderSwitch(col, typeName)

\* The body of the loop of buildRowData for one cell: NULL for a nil cell,
\* whatever its type, and the switch otherwise.
renderCell(col, typeName) ==
    IF col.kind = "nil" THEN Literal(NullLiteral) ELSE renderSwitch(col, typeName)

\* The loop of buildRowData from cell i (1-based) on, ssql being the text so far.
RECURSIVE buildRowLoop(_, _, _, _)
buildRowLoop(cells, types, i, text) ==
    IF i > Len(cells) THEN [ssql |-> text, err |-> NilError]
    ELSE LET r == renderCell(cells[i], types[i])
         IN  IF r.stop THEN [ssql |-> <<>>, err |-> r.err]
             ELSE buildRowLoop(cells, types, i + 1,
                               text \o r.lit \o (IF i - 1 < Len(cells) - 1 THEN <<",">> ELSE <<>>))

\* buildRowData(row, columnTypes)
buildRowData(cells, types) == buildRowLoop(cells, types, 1, <<>>)

(***************************************************************************)
(* buildRowData on its own.                                                *)
(***************************************************************************)
\* The characters of the text values: the four characters the replacer
\* escapes, the backslash, and the letters n and r.
TextAlphabet == {"n", "r", "\n", "\r", "'", "\"", "\\"}

\* The text values of up to MaxTextLen characters.
TextValues == UNION { [1..n -> TextAlphabet] : n \in 0..MaxTextLen }

\* The rows of one character column: every text type with every text value,
\* the value held as []byte as the driver returns it.
TextRows ==
    { [cells |-> <<BytesCell(v)>>, types |-> <<t>>] :
        v \in TextValues, t \in TextTypes }

\* Sample columns, a type name and a value the driver returns for it.
SampleColumns ==
    { \* a NULL in an INT column
      [type |-> <<"I", "N", "T">>, cell |-> NilCell],
      \* INT as text, as the text protocol returns it
      [type |-> <<"I", "N", "T">>, cell |-> BytesCell(<<"-", "1", "2", "8">>)],
      \* UNSIGNED INT as int64
      [type |-> <<"U", "N", "S", "I", "G", "N", "E", "D", " ", "I", "N", "T">>, cell |-> Int64Cell(7)],
      \* BIGINT as int64
      [type |-> <<"B", "I", "G", "I", "N", "T">>, cell |-> Int64Cell(0 - 128)],
      \* FLOAT as text
      [type |-> <<"F", "L", "O", "A", "T">>, cell |-> BytesCell(<<"1", ".", "5">>)],
      \* DOUBLE as float64 (1.5, in millionths)
      [type |-> <<"D", "O", "U", "B", "L", "E">>, cell |-> Float64Cell(1500000)],
      \* DECIMAL as text
      [type |-> <<"D", "E", "C", "I", "M", "A", "L">>, cell |-> BytesCell(<<"1", ".", "5", "0">>)],
      \* DATE as time.Time (parseTime=true)
      [type |-> <<"D", "A", "T", "E">>, cell |-> TimeCell([year |-> 2023, month |-> 3, day |-> 17, hour |-> 0, min |-> 0, sec |-> 0])],
      \* DATE as text (parseTime=false)
      [type |-> <<"D", "A", "T", "E">>, cell |-> BytesCell(<<"2", "0", "2", "3", "-", "0", "3", "-", "1", "7">>)],
      \* DATETIME as time.Time
      [type |-> <<"D", "A", "T", "E", "T", "I", "M", "E">>, cell |-> TimeCell([year |-> 2023, month |-> 3, day |-> 17, hour |-> 4, min |-> 5, sec |-> 6])],
      \* TIMESTAMP as time.Time
      [type |-> <<"T", "I", "M", "E", "S", "T", "A", "M", "P">>, cell |-> TimeCell([year |-> 2023, month |-> 12, day |-> 1, hour |-> 23, min |-> 59, sec |-> 0])],
      \* TIME as text
      [type |-> <<"T", "I", "M", "E">>, cell |-> BytesCell(<<"0", "4", ":", "0", "5", ":", "0", "6">>)],
      \* YEAR as text
      [type |-> <<"Y", "E", "A", "R">>, cell |-> BytesCell(<<"2", "0", "2", "3">>)],
      \* VARCHAR
      [type |-> <<"V", "A", "R", "C", "H", "A", "R">>, cell |-> BytesCell(<<"a", "'", "b">>)],
      \* BLOB
      [type |-> <<"B", "L", "O", "B">>, cell |-> BytesCell(<<"a", "b", "c">>)],
      \* ENUM
      [type |-> <<"E", "N", "U", "M">>, cell |-> BytesCell(<<"a">>)],
      \* JSON
      [type |-> <<"J", "S", "O", "N">>, cell |-> BytesCell(<<"{", "}">>)],
      \* BOOL as bool
      [type |-> <<"B", "O", "O", "L">>, cell |-> BoolCell(TRUE)],
      \* a NULL in a column of a type buildRowData does not know
      [type |-> <<"G", "E", "O", "M", "E", "T", "R", "Y">>, cell |-> NilCell],
      \* a type buildRowData does not know
      [type |-> <<"G", "E", "O", "M", "E", "T", "R", "Y">>, cell |-> BytesCell(<<"a">>)] }

\* The type names of the cases of the switch.
SupportedTypes ==
    IntegerTypes \cup FloatTypes \cup DecimalTypes \cup TextTypes \cup BinaryTypes
    \cup EnumSetTypes \cup BoolTypes
    \cup {TypeDate, TypeDatetime, TypeTimestamp, TypeTime, TypeYear, TypeJSON}

\* The rows of one nil cell, for every supported type.
NullRows == { [cells |-> <<NilCell>>, types |-> <<t>>] : t \in SupportedTypes }

\* The rows of one to MaxCols sample columns.
SampleRows ==
    { [cells |-> [i \in DOMAIN cs |-> cs[i].cell], types |-> [i \in DOMAIN cs |-> cs[i].type]] :
        cs \in UNION { [1..n -> SampleColumns] : n \in 1..MaxCols } }

InitEncode ==
    /\ dsn = <<>>
    /\ stream = <<>>
    /\ o = [dryRun |-> FALSE, mergeInsert |-> 0]
    /\ pos = 0
    /\ pc = "buildRowData"
    /\ err = "nil"
    /\ ssql = <<>>
    /\ insertSQLs = <<>>
    /\ readLog = <<>>
    /\ execLog = <<>>
    /\ dbLog = <<>>
    /\ \E r \in TextRows \cup NullRows \cup SampleRows :
        /\ row = r.cells
        /\ columnTypes = r.types
    /\ rowString = <<>>
    /\ rowErr = NilError
    /\ DumpIdle

\* One call buildRowData(row, columnTypes).
CallBuildRowData ==
    /\ pc = "buildRowData"
    /\ rowString' = buildRowData(row, columnTypes).ssql
    /\ rowErr' = buildRowData(row, columnTypes).err
    /\ pc' = "Return"
    /\ UNCHANGED <<dsn, stream, o, pos, err, ssql, insertSQLs, readLog, execLog, dbLog,
                   row, columnTypes>>
    /\ UNCHANGED dumpVars

NextEncode == CallBuildRowData

SpecEncode == InitEncode /\ [][NextEncode]_vars

\* The text a literal stands for under the escaping rules: \n is a line
\* break, \r a carriage return, \' a single quote, \" a double quote; every
\* other character stands for itself.
RECURSIVE Unescape(_)
Unescape(s) ==
    IF s = <<>> THEN <<>>
    ELSE IF Head(s) = "\\" /\ Len(s) >= 2 /\ s[2] \in {"n", "r", "'", "\""}
         THEN <<CASE s[2] = "n" -> "\n"
                  [] s[2] = "r" -> "\r"
                  [] OTHER -> s[2]>> \o Unescape(SubSeq(s, 3, Len(s)))
         ELSE <<Head(s)>> \o Unescape(Tail(s))

\* The text the quoted literal q stands for.
DecodeLiteral(q) == Unescape(SubSeq(q, 2, Len(q) - 1))

\* buildRowData was called on a row of one text value in a character column.
TextCellEncoded ==
    /\ pc = "Return"
    /\ Len(row) = 1
    /\ row[1].kind = "bytes"
    /\ NormalizeType(columnTypes[1]) \in TextTypes

\* C7: the literal of a text value of a character column decodes to that
\* value, and no other text value has the same literal.
C7_TextRoundTrip ==
    TextCellEncoded =>
        /\ rowErr = NilError
        /\ DecodeLiteral(rowString) = row[1].bytes
        /\ \A w \in TextValues :
              buildRowData(<<BytesCell(w)>>, columnTypes).ssql = rowString
                  => w = row[1].bytes

\* buildRowData has returned or panicked.
Encoded == pc = "Return" /\ row # <<>>

\* The cells (by index) whose normalized type name is in no case of the switch.
UnsupportedCells == {i \in DOMAIN row : NormalizeType(columnTypes[i]) \notin SupportedTypes}

\* C11: a row with a cell of an unsupported type makes buildRowData fail with
\* "unsupported type: <name>" for the type name of such a cell, and nothing
\* is returned as its text.
C11_UnsupportedTypeFails ==
    (Encoded /\ UnsupportedCells # {}) =>
        /\ \E i \in UnsupportedCells :
              rowErr = Errorf(UnsupportedPrefix \o NormalizeType(columnTypes[i]))
        /\ rowString = <<>>

\* Every cell of the row is of a supported type and is given a literal.
AllCellsRendered ==
    /\ UnsupportedCells = {}
    /\ \A i \in DOMAIN row : ~renderCell(row[i], columnTypes[i]).stop

\* C12: a nil cell of any supported type is rendered as the bare text NULL and
\* a cell that is not nil is not: in a rendered row the literals that are NULL
\* are those of the nil cells, and a row of one nil cell gives NULL, no error.
C12_NullRenderedAsNULL ==
    (Encoded /\ AllCellsRendered) =>
        /\ LET parts == Split(rowString, ",")
           IN  /\ Len(parts) = Len(row)
               /\ \A i \in DOMAIN row : (row[i].kind = "nil") <=> (parts[i] = NullLiteral)
        /\ row = <<NilCell>> => rowString = NullLiteral /\ rowErr = NilError

\* A nil cell of a character column was rendered.
C12_Witness ==
    /\ Encoded
    /\ row = <<NilCell>>
    /\ NormalizeType(columnTypes[1]) \in TextTypes
    /\ rowString = NullLiteral

\* The cells (by index) whose value is not of the Go type that the case of
\* their column type asserts: time.Time for DATE, DATETIME and TIMESTAMP,
\* []byte for TIME and YEAR.
MismatchedCells ==
    {i \in DOMAIN row :
        LET Type == NormalizeType(columnTypes[i])
        IN  \/ Type \in {TypeDate, TypeDatetime, TypeTimestamp} /\ row[i].kind \notin {"nil", "time"}
            \/ Type \in {TypeTime, TypeYear} /\ row[i].kind \notin {"nil", "bytes"}}

\* C18: when buildRowData returns no error its text is one literal for every
\* cell, separated by commas, and a row with a cell whose value does not match
\* its column type is not returned as a success.
C18_SuccessHasEveryCell ==
    Encoded =>
        /\ rowErr = NilError =>
              LET parts == Split(rowString, ",")
              IN  /\ Len(parts) = Len(row)
                  /\ \A i \in DOMAIN row : parts[i] # <<>>
        /\ MismatchedCells # {} => rowErr # NilError

(***************************************************************************)
(* mysqldump.go: the text Dump writes.                                     *)
(***************************************************************************)
\* "-- ----------------------------\n"
CommentRule ==
    <<"-", "-", " ", "-", "-", "-", "-", "-", "-", "-", "-", "-", "-", "-", "-", "-",
      "-", "-", "-", "-", "-", "-", "-", "-", "-", "-", "-", "-", "-", "-", "-", "\n">>

\* The package variable version.
version == <<"v", "0", ".", "1", "1", ".", "0">>

\* time.Now() at the start of Dump, and time.Since(start).String() at its end:
\* values of the clock, fixed here.
StartTime == [year |-> 2023, month |-> 3, day |-> 17, hour |-> 4, min |-> 5, sec |-> 6]
CostTime == <<"1", "s">>

\* The header Dump writes first.
DumpHeader ==
    CommentRule
    \o <<"-", "-", " ", "M", "y", "S", "Q", "L", " ", "D", "a", "t", "a", "b", "a", "s", "e", " ", "D", "u", "m", "p", "\n">>
    \o <<"-", "-", " ", "G", "o", "M", "y", "s", "q", "l", "D", "u", "m", "p", " ", "v", "e", "r", "s", "i", "o", "n", ":", " ">> \o version \o <<"\n">>
    \o <<"-", "-", " ", "S", "t", "a", "r", "t", " ", "T", "i", "m", "e", ":", " ">> \o FormatDateTime(StartTime) \o <<"\n">>
    \o CommentRule
    \o <<"\n", "\n">>
    \o
    <<"/", "*", "!", "4", "0", "1", "0", "1", " ", "S", "E", "T", " ", "@", "O", "L",
      "D", "_", "S", "Q", "L", "_", "M", "O", "D", "E", "=", "@", "@", "S", "Q", "L",
      "_", "M", "O", "D", "E", ",", " ", "S", "Q", "L", "_", "M", "O", "D", "E", "=",
      "'", "N", "O", "_", "A", "U", "T", "O", "_", "V", "A", "L", "U", "E", "_", "O",
      "N", "_", "Z", "E", "R", "O", "'", " ", "*", "/", ";", "\n">>

\* The footer Dump writes last.
DumpFooter ==
    CommentRule
    \o <<"-", "-", " ", "D", "u", "m", "p", "e", "d", " ", "b", "y", " ", "m", "y", "s", "q", "l", "d", "u", "m", "p", "2", "\n">>
    \o <<"-", "-", " ", "C", "o", "s", "t", " ", "T", "i", "m", "e", ":", " ">> \o CostTime \o <<"\n">>
    \o CommentRule

\* The backquote character of the Go source.  A TLA+ string cannot hold a lone
\* backquote, so the character is written as this one element.
Backquote == "`'"

\* name between two backquotes
BackQuoted(name) == <<Backquote>> \o name \o <<Backquote>>

\* fmt.Sprintf("USE [%s];\n", dbStr), with backquotes for the brackets
UseStatement(dbStr) == <<"U", "S", "E", " ">> \o BackQuoted(dbStr) \o <<";", "\n">>

\* fmt.Sprintf("DROP TABLE IF EXISTS [%s];\n", table), with backquotes
DropTableStatement(table) ==
    <<"D", "R", "O", "P", " ", "T", "A", "B", "L", "E", " ", "I", "F", " ", "E", "X", "I", "S", "T", "S", " ">> \o BackQuoted(table) \o <<";", "\n">>

\* fmt.Sprintf("DROP VIEW IF EXISTS  [%s];\n", table), with backquotes
DropViewStatement(table) ==
    <<"D", "R", "O", "P", " ", "V", "I", "E", "W", " ", "I", "F", " ", "E", "X", "I", "S", "T", "S", " ", " ">> \o BackQuoted(table) \o <<";", "\n">>

\* The error of a query the server or the connection fails.
QueryError == Errorf(<<"q", "u", "e", "r", "y", " ", "e", "r", "r", "o", "r">>)

\* strings.Replace(s, old, new, 1)
RECURSIVE ReplaceFirst(_, _, _)
ReplaceFirst(s, old, new) ==
    IF s = <<>> THEN <<>>
    ELSE IF HasPrefix(s, old) THEN new \o SubSeq(s, Len(old) + 1, Len(s))
    ELSE <<Head(s)>> \o ReplaceFirst(Tail(s), old, new)

\* strings.Join(ss, sep)
RECURSIVE Join(_, _)
Join(ss, sep) ==
    IF ss = <<>> THEN <<>>
    ELSE IF Len(ss) = 1 THEN ss[1]
    ELSE ss[1] \o sep \o Join(Tail(ss), sep)

\* getTableType: tableType is what the query returns for the table, ok whether
\* the query and its Scan succeed.
getTableType(tableType, ok) ==
    IF ~ok THEN [t |-> <<>>, err |-> QueryError]
    ELSE CASE tableType = <<"B", "A", "S", "E", " ", "T", "A", "B", "L", "E">> ->
                [t |-> <<"T", "A", "B", "L", "E">>, err |-> NilError]
           [] tableType = <<"V", "I", "E", "W">> ->
                [t |-> <<"V", "I", "E", "W">>, err |-> NilError]
           [] OTHER -> [t |-> <<>>, err |-> NilError]

\* getCreateTableSQL: createTableSQL is what SHOW CREATE TABLE returns.
getCreateTableSQL(createTableSQL, ok) ==
    IF ~ok THEN [sql |-> <<>>, err |-> QueryError]
    ELSE [sql |-> ReplaceFirst(createTableSQL, <<"C", "R", "E", "A", "T", "E", " ", "T", "A", "B", "L", "E">>,
                               <<"C", "R", "E", "A", "T", "E", " ", "T", "A", "B", "L", "E", " ", "I", "F", " ", "N", "O", "T", " ", "E", "X", "I", "S", "T", "S">>),
          err |-> NilError]

\* writeTableStruct: the text written to buf, and the error returned.
writeTableStruct(table, createTableSQL, ok) ==
    LET head == CommentRule
                \o <<"-", "-", " ", "T", "a", "b", "l", "e", " ", "s", "t", "r", "u", "c", "t", "u", "r", "e", " ", "f", "o", "r", " ">> \o table \o <<"\n">>
                \o CommentRule
        c == getCreateTableSQL(createTableSQL, ok)
    IN  IF ~c.err.nil THEN [out |-> head, err |-> c.err]
        ELSE [out |-> head \o c.sql \o <<";">> \o <<"\n", "\n">> \o <<"\n", "\n">>,
              err |-> NilError]

\* writeViewStruct: the text written to buf, and the error returned.
writeViewStruct(table, createTableSQL, ok) ==
    LET head == CommentRule
                \o <<"-", "-", " ", "V", "i", "e", "w", " ", "s", "t", "r", "u", "c", "t", "u", "r", "e", " ", "f", "o", "r", " ">> \o table \o <<"\n">>
                \o CommentRule
    IN  IF ~ok THEN [out |-> head, err |-> QueryError]
        ELSE [out |-> head \o createTableSQL \o <<";">> \o <<"\n", "\n">> \o <<"\n", "\n">>,
              err |-> NilError]

\* "INSERT INTO [table] ([c1],[c2]) VALUES \n", with backquotes for the
\* brackets: the head of an INSERT statement of writeTableData.
InsertHead(table, columns) ==
    <<"I", "N", "S", "E", "R", "T", " ", "I", "N", "T", "O", " ", Backquote>> \o table
    \o <<Backquote, " ", "(", Backquote>> \o Join(columns, <<Backquote, ",", Backquote>>)
    \o <<Backquote, ")", " ", "V", "A", "L", "U", "E", "S", " ", "\n">>

\* A mutant of writeRows: a batch size of 2 is taken for no batching
\* (perDataNumber <= 2 instead of perDataNumber < 2).
RECURSIVE writeRows_BatchOfTwoSplit(_, _, _, _, _, _, _)
writeRows_BatchOfTwoSplit(table, columns, types, rows, perDataNumber, rowId, out) ==
    IF rowId >= Len(rows) THEN [out |-> out, err |-> NilError]
    ELSE LET first == rowId = 0 \/ perDataNumber <= 2 \/ rowId % perDataNumber = 0
             head == IF first
                     THEN (IF rowId > 0 THEN <<";", "\n">> ELSE <<>>)
                          \o InsertHead(table, columns)
                     ELSE <<>>
             out1 == IF first THEN out ELSE out \o <<",", "\n">>
             r == buildRowData(rows[rowId + 1], types)
         IN  IF ~r.err.nil THEN [out |-> out1, err |-> r.err]
             ELSE writeRows_BatchOfTwoSplit(table, columns, types, rows, perDataNumber,
                                            rowId + 1,
                                            out1 \o head \o <<"(">> \o r.ssql \o <<")">>)

\* The loop `for lineRows.Next()` of writeTableData from row rowId on: rows
\* are the rows Next delivers, out the text written to buf so far.  The
\* ",\n" between two rows of a statement is written before the row is built.
RECURSIVE writeRows(_, _, _, _, _, _, _)
writeRows(table, columns, types, rows, perDataNumber, rowId, out) ==
    IF rowId >= Len(rows) THEN [out |-> out, err |-> NilError]
    ELSE LET first == rowId = 0 \/ perDataNumber < 2 \/ rowId % perDataNumber = 0
             head == IF first
                     THEN (IF rowId > 0 THEN <<";", "\n">> ELSE <<>>)
                          \o InsertHead(table, columns)
                     ELSE <<>>
             out1 == IF first THEN out ELSE out \o <<",", "\n">>
             r == buildRowData(rows[rowId + 1], types)
         IN  IF ~r.err.nil THEN [out |-> out1, err |-> r.err]
             ELSE writeRows(table, columns, types, rows, perDataNumber, rowId + 1,
                            out1 \o head \o <<"(">> \o r.ssql \o <<")">>)

\* writeTableData: res is the result of the SELECT: whether the query
\* succeeds, the column names and types, and the rows Next delivers.  The text
\* written to buf, and the error returned.
writeTableData(table, res, perDataNumber) ==
    LET head == CommentRule
                \o <<"-", "-", " ", "R", "e", "c", "o", "r", "d", "s", " ", "o", "f", " ">> \o table \o <<"\n">>
                \o CommentRule
                \o <<"L", "O", "C", "K", " ", "T", "A", "B", "L", "E", "S", " ">> \o BackQuoted(table)
                \o <<" ", "W", "R", "I", "T", "E", ";", "\n">>
                \o <<"/", "*", "!", "4", "0", "0", "0", "0", " ", "A", "L", "T", "E", "R", " ", "T", "A", "B", "L", "E", " ">> \o BackQuoted(table)
                \o <<" ", "D", "I", "S", "A", "B", "L", "E", " ", "K", "E", "Y", "S", " ", "*", "/", ";", "\n">>
        w == writeRows(table, res.columns, res.types, res.rows, perDataNumber, 0, head)
    IN  IF ~res.ok THEN [out |-> head, err |-> QueryError]
        ELSE IF ~w.err.nil THEN w
        ELSE [out |-> w.out \o <<";", "\n">>
                      \o <<"/", "*", "!", "4", "0", "0", "0", "0", " ", "A", "L", "T", "E", "R", " ", "T", "A", "B", "L", "E", " ">> \o BackQuoted(table)
                      \o <<" ", "E", "N", "A", "B", "L", "E", " ", "K", "E", "Y", "S", " ", "*", "/", ";", "\n">>
                      \o <<"U", "N", "L", "O", "C", "K", " ", "T", "A", "B", "L", "E", "S", ";", "\n", "\n">>,
              err |-> NilError]

\* make(map[string][]triggerStruct)
MakeMap == [nil |-> FALSE, keys |-> <<>>, vals |-> <<>>]

\* m[k] of a map: the zero value (no triggers) for a key it does not hold.
MapGet(m, k) ==
    LET at == {i \in DOMAIN m.keys : m.keys[i] = k}
    IN  IF at = {} THEN <<>> ELSE m.vals[CHOOSE i \in at : TRUE]

\* m[k] = append(m[k], v)
MapAppend(m, k, v) ==
    LET at == {i \in DOMAIN m.keys : m.keys[i] = k}
    IN  IF at = {}
        THEN [m EXCEPT !.keys = Append(@, k), !.vals = Append(@, <<v>>)]
        ELSE [m EXCEPT !.vals[CHOOSE i \in at : TRUE] = Append(@, v)]

\* The loop `for trgs.Next()` of getTrigger over the rows of SHOW TRIGGERS.
RECURSIVE scanTriggers(_, _)
scanTriggers(m, shown) ==
    IF shown = <<>> THEN m
    ELSE scanTriggers(MapAppend(m, Head(shown).Table, Head(shown)), Tail(shown))

\* getTrigger: all is the package variable allTriggers, shown the rows of
\* SHOW TRIGGERS in the selected database, ok whether that query succeeds.
\* The triggers returned, the new value of allTriggers, and the error.
getTrigger(all, table, ok, shown) ==
    IF ~all.nil THEN [trigger |-> MapGet(all, table), all |-> all, err |-> NilError]
    ELSE IF ~ok THEN [trigger |-> <<>>, all |-> MakeMap, err |-> QueryError]
    ELSE LET m == scanTriggers(MakeMap, shown)
         IN  [trigger |-> MapGet(m, table), all |-> m, err |-> NilError]

\* The five lines writeTableTrigger appends for the trigger v.
TriggerLines(v) ==
    << <<"D", "E", "L", "I", "M", "I", "T", "E", "R", " ", ";", ";">>,
       <<"/", "*", "!", "5", "0", "0", "0", "3", " ", "S", "E", "T", " ", "S", "E", "S", "S", "I", "O", "N", " ", "S", "Q", "L", "_", "M", "O", "D", "E", "=", "\"", "\"", " ", "*", "/", ";", ";">>,
       <<"/", "*", "!", "5", "0", "0", "0", "3", " ", "C", "R", "E", "A", "T", "E", " ", "T", "R", "I", "G", "G", "E", "R", " ">> \o BackQuoted(v.Trigger) \o <<" ">>
           \o v.Timing \o <<" ">> \o v.Event \o <<" ", "O", "N", " ">> \o BackQuoted(v.Table)
           \o <<" ", "F", "O", "R", " ", "E", "A", "C", "H", " ", "R", "O", "W", " ">> \o v.Statement \o <<" ", "*", "/", ";", ";">>,
       <<"D", "E", "L", "I", "M", "I", "T", "E", "R", " ", ";">>,
       <<"/", "*", "!", "5", "0", "0", "0", "3", " ", "S", "E", "T", " ", "S", "E", "S", "S", "I", "O", "N", " ", "S", "Q", "L", "_", "M", "O", "D", "E", "=", "@", "O", "L", "D", "_", "S", "Q", "L", "_", "M", "O", "D", "E", " ", "*", "/", ";", "\n">> >>

\* The lines writeTableTrigger appends for the triggers, in order.
RECURSIVE AllTriggerLines(_)
AllTriggerLines(triggers) ==
    IF triggers = <<>> THEN <<>>
    ELSE TriggerLines(Head(triggers)) \o AllTriggerLines(Tail(triggers))

\* writeTableTrigger, given what getTrigger returns: the text written to buf
\* (wrote: whether buf.WriteString is called at all), and the error.
writeTableTrigger(table, g) ==
    LET head == IF Len(g.trigger) > 0
                THEN << <<"-", "-", " ", "-", "-", "-", "-", "-", "-", "-", "-", "-", "-", "-", "-", "-", "-", "-", "-", "-", "-", "-", "-", "-", "-", "-", "-", "-", "-", "-", "-">>,
                        <<"-", "-", " ", "D", "u", "m", "p", " ", "t", "a", "b", "l", "e", " ", "t", "r", "i", "g", "g", "e", "r", "s", " ", "o", "f", " ">> \o table
                            \o <<"-", "-", "-", "-", "-", "-", "-", "-">>,
                        <<"-", "-", " ", "-", "-", "-", "-", "-", "-", "-", "-", "-", "-", "-", "-", "-", "-", "-", "-", "-", "-", "-", "-", "-", "-", "-", "-", "-", "-", "-", "-">> >>
                ELSE <<>>
        sql == head \o AllTriggerLines(g.trigger)
    IN  IF ~g.err.nil THEN [wrote |-> FALSE, out |-> <<>>, err |-> g.err]
        ELSE [wrote |-> TRUE, out |-> Join(sql, <<"\n">>), err |-> NilError]

(***************************************************************************)
(* The MySQL server Dump talks to (the environment), and the calls made.   *)
(***************************************************************************)
\* Most rows of the exported table.
MaxRows == 2
\* Most Dump calls of one process.
MaxDumps == 2

\* The names of the databases and tables of the server.
DbD == <<"d">>
DbE == <<"e">>
TableT == <<"t">>
ViewV == <<"v">>

\* The rows of SHOW DATABASES.
ServerDatabases == <<DbD, DbE>>

\* The rows of SHOW TABLES in a database: both hold a table t and a view v.
ServerTables(db) == <<TableT, ViewV>>

\* TABLE_TYPE of INFORMATION_SCHEMA.TABLES for a table of the selected
\* database; found is FALSE for a name the database does not hold (Scan then
\* fails with sql.ErrNoRows).
TableTypeOf(db, table) ==
    CASE table = TableT -> [found |-> TRUE, type |-> <<"B", "A", "S", "E", " ", "T", "A", "B", "L", "E">>]
      [] table = ViewV -> [found |-> TRUE, type |-> <<"V", "I", "E", "W">>]
      [] OTHER -> [found |-> FALSE, type |-> <<>>]

\* The second column of SHOW CREATE TABLE.
CreateSQLOf(table) ==
    IF table = ViewV
    THEN <<"C", "R", "E", "A", "T", "E", " ", "V", "I", "E", "W", " ", Backquote, "v", Backquote, " ", "A", "S", " ", "s", "e", "l", "e", "c", "t", " ", "1">>
    ELSE <<"C", "R", "E", "A", "T", "E", " ", "T", "A", "B", "L", "E", " ", Backquote, "t", Backquote, " ", "(", Backquote, "c", Backquote, " ", "i", "n", "t", ")">>

\* The rows of SHOW TRIGGERS: database d has one trigger on its table t,
\* database e has none.
ShownTriggers(db) ==
    IF db = DbD
    THEN << [Trigger |-> <<"g">>,
             Event |-> <<"I", "N", "S", "E", "R", "T">>,
             Table |-> TableT,
             Statement |-> <<"S", "E", "T", " ", "@", "a", "=", "1">>,
             Timing |-> <<"B", "E", "F", "O", "R", "E">>] >>
    ELSE <<>>

\* The triggers defined on a table of a database.
DefinedTriggers(db, table) == SelectSeq(ShownTriggers(db), LAMBDA g : g.Table = table)

\* The row of table t with the number n in its INT column.
IntRow(n) == <<BytesCell(Digits(n))>>

\* What table t holds (in both databases): its columns, their type names, and
\* its rows as the driver returns them.  One INT column with 0..MaxRows rows;
\* an INT and a GEOMETRY column; a DATE column read without parseTime.
TableContents ==
    { [columns |-> << <<"c">> >>, types |-> << <<"I", "N", "T">> >>,
       rows |-> [i \in 1..n |-> IntRow(i)]] : n \in 0..MaxRows }
    \cup
    { [columns |-> << <<"c">>, <<"g">> >>,
       types |-> << <<"I", "N", "T">>, <<"G", "E", "O", "M", "E", "T", "R", "Y">> >>,
       rows |-> << <<BytesCell(<<"1">>), BytesCell(<<"a">>)>> >>],
      [columns |-> << <<"c">> >>, types |-> << TypeDate >>,
       rows |-> << <<BytesCell(<<"2", "0", "2", "3", "-", "0", "3", "-", "1", "7">>)>>, IntRow(2) >>] }

\* The content the tables have in the calls that do not export data.
PlainContent ==
    [columns |-> << <<"c">> >>, types |-> << <<"I", "N", "T">> >>, rows |-> << IntRow(1) >>]

\* How many rows Next can deliver of a result of n rows: all of them, or all
\* but the last when reading the last one fails (Next then returns false and
\* Rows.Err holds the failure).
DeliveredCounts(n) == IF n = 0 THEN {0} ELSE {n - 1, n}

\* The row-batch sizes WithMultyInsert is given; 0 is the default.
BatchSizes == {0, 2}

\* The options of a Dump call: the fields of dumpOption the options set.
DumpOptions ==
    [isData : BOOLEAN, isDropTable : BOOLEAN, isUseDb : BOOLEAN, isAllDB : BOOLEAN,
     dbs : {<<>>, <<DbE>>, <<DbD, DbE>>},
     isAllTable : BOOLEAN, tables : {<<>>, <<TableT>>},
     perDataNumber : BatchSizes]

\* The calls made: data export with every table content and batch size;
\* without it the content and the batch size play no part.
DumpCalls ==
    { c \in [opts : DumpOptions, content : TableContents, dsn : DSNs] :
        /\ ~c.opts.isData => c.content = PlainContent /\ c.opts.perDataNumber = 0
        /\ c.dsn # <<"r", "@", "/", "d", "?", "c">> => c.opts.dbs = <<>> }

(***************************************************************************)
(* mysqldump.go: Dump                                                      *)
(***************************************************************************)
\* The variables of Source that Dump does not use.
sourceVars == <<stream, pos, ssql, insertSQLs, readLog, execLog, dbLog>>

\* A text written to buf: by which part of Dump (sec), for which table, with
\* which database selected.
Piece(sec, table, text) == [sec |-> sec, db |-> curDB, table |-> table, text |-> text]

\* `return err`
DumpReturns(e) == err' = e /\ pc' = "Return"

\* The loops over tables and dbs after a table: the next table (the i-th of
\* tbls), else the next database, else the footer.
NextTable(i, tbls) ==
    /\ tblIdx' = i
    /\ IF i <= Len(tbls) THEN pc' = "TableType" /\ dbIdx' = dbIdx
       ELSE IF dbIdx < Len(dbs) THEN pc' = "UseDB" /\ dbIdx' = dbIdx + 1
       ELSE pc' = "Footer" /\ dbIdx' = dbIdx + 1

\* A mutant of ExportedDBs: the databases of WithDBs win over WithAllDatabases.
ExportedDBs_OptionFirst(opt, listed) == IF Len(opt.dbs) > 0 THEN opt.dbs ELSE listed

\* The databases Dump exports: those the server lists when isAllDB is set,
\* else o.dbs.
ExportedDBs(opt, listed) == IF opt.isAllDB THEN listed ELSE opt.dbs

\* The tables Dump exports of a database: those the server lists when
\* isAllTable is set, else o.tables.
ExportedTables(opt, listed) == IF opt.isAllTable THEN listed ELSE opt.tables

\* A mutant of AfterStruct: the records are exported whatever isData is.
AfterStruct_AlwaysData(opt) == "Data"

\* What follows the structure of a table: its records when isData is set,
\* else its triggers.
AfterStruct(opt) == IF opt.isData THEN "Data" ELSE "Trigger"

InitDump ==
    /\ \E c \in DumpCalls :
        /\ dsn = c.dsn
        /\ opts = c.opts
        /\ server = c.content
    /\ o = opts
    /\ pc = "Dump"
    /\ err = NilError
    /\ stream = <<>>
    /\ pos = 0
    /\ ssql = <<>>
    /\ insertSQLs = <<>>
    /\ readLog = <<>>
    /\ execLog = <<>>
    /\ dbLog = <<>>
    /\ EncIdle
    /\ dbs = <<>>
    /\ dbIdx = 0
    /\ tables = <<>>
    /\ tblIdx = 0
    /\ tt = <<>>
    /\ doc = <<>>
    /\ curDB = <<>>
    /\ rowsErr = NilError
    /\ allTriggers = NilMap
    /\ dumps = 1

\* No database is named and GetDBNameFromDNS fails: Dump returns its error
\* before anything is written.
DumpDNSError ==
    /\ pc = "Dump"
    /\ Len(opts.dbs) = 0
    /\ GetDBNameFromDNS(dsn).err # "nil"
    /\ DumpReturns(Errorf(<<"d", "n", "s", " ", "e", "r", "r", "o", "r", ":", " ">> \o dsn))
    /\ o' = opts
    /\ UNCHANGED <<dsn, sourceVars, encVars>>
    /\ UNCHANGED <<server, opts, dbs, dbIdx, tables, tblIdx, tt, doc, curDB, rowsErr,
                   allTriggers, dumps>>

\* The options and their defaults, the header, and sql.Open.
DumpOpen ==
    /\ pc = "Dump"
    /\ Len(opts.dbs) = 0 => GetDBNameFromDNS(dsn).err = "nil"
    /\ o' = [opts EXCEPT
               !.dbs = IF Len(opts.dbs) = 0 THEN <<GetDBNameFromDNS(dsn).name>> ELSE @,
               !.isAllTable = IF Len(opts.tables) = 0 THEN TRUE ELSE @]
    /\ doc' = <<Piece("header", <<>>, DumpHeader)>>
    /\ \E openOk \in BOOLEAN :
        IF openOk THEN pc' = "GetDBs" /\ err' = NilError
        ELSE DumpReturns(Errorf(<<"o", "p", "e", "n", " ", "e", "r", "r", "o", "r">>))
    /\ UNCHANGED <<dsn, sourceVars, encVars>>
    /\ UNCHANGED <<server, opts, dbs, dbIdx, tables, tblIdx, tt, curDB, rowsErr,
                   allTriggers, dumps>>

\* 1. The databases: those the server lists, or those of the options; more
\* than one turns isUseDb on.
GetDBs ==
    /\ pc = "GetDBs"
    /\ \E ok \in BOOLEAN :
        LET ds == ExportedDBs(o, ServerDatabases)
        IN  IF o.isAllDB /\ ~ok
            THEN DumpReturns(QueryError) /\ UNCHANGED <<o, dbs, dbIdx>>
            ELSE /\ dbs' = ds
                 /\ o' = [o EXCEPT !.isUseDb = IF Len(ds) > 1 THEN TRUE ELSE @]
                 /\ dbIdx' = 1
                 /\ pc' = IF Len(ds) >= 1 THEN "UseDB" ELSE "Footer"
                 /\ UNCHANGED err
    /\ UNCHANGED <<dsn, sourceVars, encVars>>
    /\ UNCHANGED <<server, opts, tables, tblIdx, tt, doc, curDB, rowsErr, allTriggers, dumps>>

\* db.Exec of the USE statement for the database dbs[dbIdx].
UseDatabase ==
    /\ pc = "UseDB"
    /\ \E ok \in BOOLEAN :
        IF ok THEN curDB' = dbs[dbIdx] /\ pc' = "Tables" /\ UNCHANGED err
        ELSE DumpReturns(QueryError) /\ UNCHANGED curDB
    /\ UNCHANGED <<dsn, o, sourceVars, encVars>>
    /\ UNCHANGED <<server, opts, dbs, dbIdx, tables, tblIdx, tt, doc, rowsErr,
                   allTriggers, dumps>>

\* 2. The tables: those the server lists, or those of the options; then the
\* USE statement of the document when isUseDb is on.
ListTables ==
    /\ pc = "Tables"
    /\ \E ok \in BOOLEAN :
        LET tbls == ExportedTables(o, ServerTables(curDB))
        IN  IF o.isAllTable /\ ~ok
            THEN DumpReturns(QueryError) /\ UNCHANGED <<tables, tblIdx, dbIdx, doc>>
            ELSE /\ tables' = tbls
                 /\ doc' = IF o.isUseDb
                           THEN Append(doc, Piece("use", <<>>, UseStatement(dbs[dbIdx])))
                           ELSE doc
                 /\ NextTable(1, tbls)
                 /\ UNCHANGED err
    /\ UNCHANGED <<dsn, o, sourceVars, encVars>>
    /\ UNCHANGED <<server, opts, dbs, tt, curDB, rowsErr, allTriggers, dumps>>

\* 3. getTableType for the table tables[tblIdx].
TableType ==
    /\ pc = "TableType"
    /\ \E ok \in BOOLEAN :
        LET table == tables[tblIdx]
            known == TableTypeOf(curDB, table)
            r == getTableType(known.type, ok /\ known.found)
        IN  IF ~r.err.nil
            THEN DumpReturns(r.err) /\ UNCHANGED <<tt, tblIdx, dbIdx>>
            ELSE /\ tt' = r.t
                 /\ UNCHANGED err
                 /\ IF r.t = <<"T", "A", "B", "L", "E">>
                    THEN pc' = "Struct" /\ UNCHANGED <<tblIdx, dbIdx>>
                    ELSE IF r.t = <<"V", "I", "E", "W">>
                    THEN pc' = "View" /\ UNCHANGED <<tblIdx, dbIdx>>
                    ELSE NextTable(tblIdx + 1, tables)
    /\ UNCHANGED <<dsn, o, sourceVars, encVars>>
    /\ UNCHANGED <<server, opts, dbs, tables, doc, curDB, rowsErr, allTriggers, dumps>>

\* A base table: the DROP statement when isDropTable is set, and
\* writeTableStruct.
ExportStruct ==
    /\ pc = "Struct"
    /\ \E ok \in BOOLEAN :
        LET table == tables[tblIdx]
            w == writeTableStruct(table, CreateSQLOf(table), ok)
            dropped == IF o.isDropTable
                       THEN Append(doc, Piece("drop", table, DropTableStatement(table)))
                       ELSE doc
        IN  /\ doc' = Append(dropped, Piece("struct", table, w.out))
            /\ IF ~w.err.nil THEN DumpReturns(w.err)
               ELSE pc' = AfterStruct(o) /\ UNCHANGED err
    /\ UNCHANGED <<dsn, o, sourceVars, encVars>>
    /\ UNCHANGED <<server, opts, dbs, dbIdx, tables, tblIdx, tt, curDB, rowsErr,
                   allTriggers, dumps>>

\* writeTableData for a base table.  The SELECT can fail; Next delivers all
\* rows or stops early on a failure, which Rows.Err then holds.
ExportData ==
    /\ pc = "Data"
    /\ \E ok \in BOOLEAN, k \in DeliveredCounts(Len(server.rows)) :
        LET table == tables[tblIdx]
            res == [ok |-> ok, columns |-> server.columns, types |-> server.types,
                    rows |-> SubSeq(server.rows, 1, k)]
            w == writeTableData(table, res, o.perDataNumber)
        IN  /\ doc' = Append(doc, Piece("data", table, w.out))
            /\ rowsErr' = IF ok /\ k < Len(server.rows) THEN QueryError ELSE NilError
            /\ IF ~w.err.nil THEN DumpReturns(w.err)
               ELSE pc' = "Trigger" /\ UNCHANGED err
    /\ UNCHANGED <<dsn, o, sourceVars, encVars>>
    /\ UNCHANGED <<server, opts, dbs, dbIdx, tables, tblIdx, tt, curDB, allTriggers, dumps>>

\* writeTableTrigger for a base table, with getTrigger and the trigger cache.
ExportTrigger ==
    /\ pc = "Trigger"
    /\ \E ok \in BOOLEAN :
        LET table == tables[tblIdx]
            g == getTrigger(allTriggers, table, ok, ShownTriggers(curDB))
            w == writeTableTrigger(table, g)
        IN  /\ allTriggers' = g.all
            /\ doc' = IF w.wrote THEN Append(doc, Piece("trigger", table, w.out)) ELSE doc
            /\ IF ~w.err.nil
               THEN DumpReturns(w.err) /\ UNCHANGED <<tblIdx, dbIdx>>
               ELSE NextTable(tblIdx + 1, tables) /\ UNCHANGED err
    /\ UNCHANGED <<dsn, o, sourceVars, encVars>>
    /\ UNCHANGED <<server, opts, dbs, tables, tt, curDB, rowsErr, dumps>>

\* A view: the DROP VIEW statement when isDropTable is set, and writeViewStruct.
ExportView ==
    /\ pc = "View"
    /\ \E ok \in BOOLEAN :
        LET table == tables[tblIdx]
            w == writeViewStruct(table, CreateSQLOf(table), ok)
            dropped == IF o.isDropTable
                       THEN Append(doc, Piece("dropview", table, DropViewStatement(table)))
                       ELSE doc
        IN  /\ doc' = Append(dropped, Piece("view", table, w.out))
            /\ IF ~w.err.nil
               THEN DumpReturns(w.err) /\ UNCHANGED <<tblIdx, dbIdx>>
               ELSE NextTable(tblIdx + 1, tables) /\ UNCHANGED err
    /\ UNCHANGED <<dsn, o, sourceVars, encVars>>
    /\ UNCHANGED <<server, opts, dbs, tables, tt, curDB, rowsErr, allTriggers, dumps>>

\* The footer and `return nil`.
WriteFooter ==
    /\ pc = "Footer"
    /\ doc' = Append(doc, Piece("footer", <<>>, DumpFooter))
    /\ DumpReturns(NilError)
    /\ UNCHANGED <<dsn, o, sourceVars, encVars>>
    /\ UNCHANGED <<server, opts, dbs, dbIdx, tables, tblIdx, tt, curDB, rowsErr,
                   allTriggers, dumps>>

\* The process calls Dump again with the same arguments: the locals are new,
\* the package variable allTriggers is what the calls before left.
DumpAgain ==
    /\ pc = "Return"
    /\ dumps < MaxDumps
    /\ dumps' = dumps + 1
    /\ pc' = "Dump"
    /\ o' = opts
    /\ err' = NilError
    /\ dbs' = <<>>
    /\ dbIdx' = 0
    /\ tables' = <<>>
    /\ tblIdx' = 0
    /\ tt' = <<>>
    /\ doc' = <<>>
    /\ curDB' = <<>>
    /\ rowsErr' = NilError
    /\ UNCHANGED <<dsn, sourceVars, encVars, server, opts, allTriggers>>

NextDump ==
    \/ DumpDNSError
    \/ DumpOpen
    \/ GetDBs
    \/ UseDatabase
    \/ ListTables
    \/ TableType
    \/ ExportStruct
    \/ ExportData
    \/ ExportTrigger
    \/ ExportView
    \/ WriteFooter
    \/ DumpAgain

SpecDump == InitDump /\ [][NextDump]_vars

(***************************************************************************)
(* The properties of Dump.                                                 *)
(***************************************************************************)
\* Dump has returned nil.
DumpSucceeded == pc = "Return" /\ err.nil /\ doc # <<>>

\* The piece i of the document is of section sec and of the same table and
\* database as piece j.
SectionOf(i, sec, j) ==
    /\ i \in DOMAIN doc
    /\ doc[i].sec = sec
    /\ doc[i].table = doc[j].table
    /\ doc[i].db = doc[j].db

\* C13: the sections of a base table are written in the order DROP (exactly
\* when isDropTable is set), structure, records (exactly when isData is set),
\* triggers; without isData nothing of a records section and no INSERT INTO
\* is in the document, without isDropTable no DROP.
C13_TableSectionOrder ==
    /\ \A i \in DOMAIN doc :
        /\ doc[i].sec = "drop" => opts.isDropTable /\ SectionOf(i + 1, "struct", i)
        /\ doc[i].sec = "struct" =>
              /\ opts.isDropTable => SectionOf(i - 1, "drop", i)
              /\ i < Len(doc) =>
                    IF opts.isData THEN SectionOf(i + 1, "data", i)
                    ELSE SectionOf(i + 1, "trigger", i)
              /\ (i = Len(doc) /\ DumpSucceeded) => FALSE
        /\ doc[i].sec = "data" =>
              /\ opts.isData
              /\ SectionOf(i - 1, "struct", i)
              /\ i < Len(doc) => SectionOf(i + 1, "trigger", i)
        /\ doc[i].sec = "trigger" =>
              IF opts.isData THEN SectionOf(i - 1, "data", i)
              ELSE SectionOf(i - 1, "struct", i)
    /\ ~opts.isData =>
          \A i \in DOMAIN doc : Index(doc[i].text, InsertInto) = 0 - 1
    /\ ~opts.isDropTable =>
          \A i \in DOMAIN doc : Index(doc[i].text, <<"D", "R", "O", "P", " ">>) = 0 - 1

\* A finished export with all four sections of a table, rows and a trigger
\* included.
C13_Witness ==
    /\ DumpSucceeded
    /\ \E i \in DOMAIN doc :
        /\ doc[i].sec = "drop"
        /\ SectionOf(i + 1, "struct", i)
        /\ SectionOf(i + 2, "data", i)
        /\ Index(doc[i + 2].text, InsertInto) >= 0
        /\ SectionOf(i + 3, "trigger", i)
        /\ doc[i + 3].text # <<>>

\* The USE statements of the document, in order.
UsePieces == SelectSeq(doc, LAMBDA p : p.sec = "use")

\* C14: the databases exported are those the server lists under isAllDB, else
\* those of WithDBs, else the database named in the DSN; the tables are those
\* the server lists under isAllTable or without WithTables, else those of
\* WithTables; and the document has a USE statement for each database
\* exported, ahead of its tables, when isUseDb is set or more than one
\* database is exported, and none otherwise.
C14_OptionPrecedence ==
    /\ dbs # <<>> =>
          dbs = IF opts.isAllDB THEN ServerDatabases
                ELSE IF opts.dbs # <<>> THEN opts.dbs
                ELSE <<GetDBNameFromDNS(dsn).name>>
    /\ tables # <<>> =>
          tables = IF opts.isAllTable \/ opts.tables = <<>> THEN ServerTables(curDB)
                   ELSE opts.tables
    /\ IF opts.isUseDb \/ Len(dbs) > 1
       THEN /\ Len(UsePieces) <= Len(dbs)
            /\ \A j \in DOMAIN UsePieces : UsePieces[j].text = UseStatement(dbs[j])
            /\ DumpSucceeded => Len(UsePieces) = Len(dbs)
            /\ \A i \in DOMAIN doc :
                  doc[i].table # <<>> =>
                      \E u \in 1..(i - 1) :
                          /\ doc[u].sec = "use"
                          /\ doc[u].text = UseStatement(doc[i].db)
                          /\ \A k \in (u + 1)..(i - 1) : doc[k].sec # "use"
       ELSE UsePieces = <<>>

\* A finished export of all databases of the server, asked for with
\* WithAllDatabases and WithDBs together, without WithUseDb.
C14_Witness ==
    /\ DumpSucceeded
    /\ opts.isAllDB
    /\ opts.dbs = <<DbE>>
    /\ ~opts.isUseDb
    /\ opts.tables = <<TableT>>
    /\ opts.isAllTable
    /\ Len(UsePieces) = 2
    /\ \E i \in DOMAIN doc : doc[i].sec = "view"

(***************************************************************************)
(* writeTableData on its own.                                              *)
(***************************************************************************)
\* Most rows of a result given to writeTableData.
MaxDataRows == 4
\* Largest row-batch size given to writeTableData.
MaxPerData == 3

\* The row of an INT and a VARCHAR column with the number n: the text is
\* NULL in the even rows.
PairRow(n) == <<BytesCell(Digits(n)), IF n % 2 = 0 THEN NilCell ELSE BytesCell(<<"a", "'">>)>>

\* The results of the SELECT: 0..MaxDataRows rows of one INT column, or of an
\* INT and a VARCHAR column.
DataResults ==
    { [columns |-> << <<"c">> >>, types |-> << <<"I", "N", "T">> >>,
       rows |-> [i \in 1..n |-> IntRow(i)]] : n \in 0..MaxDataRows }
    \cup
    { [columns |-> << <<"c">>, <<"x">> >>,
       types |-> << <<"I", "N", "T">>, <<"V", "A", "R", "C", "H", "A", "R">> >>,
       rows |-> [i \in 1..n |-> PairRow(i)]] : n \in 0..MaxDataRows }

\* The row-batch sizes: negative, the default 0, 1, and real batches.
PerDataNumbers == (0 - 1)..MaxPerData

InitData ==
    /\ server \in DataResults
    /\ o \in [perDataNumber : PerDataNumbers]
    /\ rowsErr \in {NilError, QueryError}
    /\ pc = "writeTableData"
    /\ err = NilError
    /\ dsn = <<>>
    /\ stream = <<>>
    /\ pos = 0
    /\ ssql = <<>>
    /\ insertSQLs = <<>>
    /\ readLog = <<>>
    /\ execLog = <<>>
    /\ dbLog = <<>>
    /\ EncIdle
    /\ opts = <<>>
    /\ dbs = <<>>
    /\ dbIdx = 0
    /\ tables = <<TableT>>
    /\ tblIdx = 1
    /\ tt = <<>>
    /\ doc = <<>>
    /\ curDB = DbD
    /\ allTriggers = NilMap
    /\ dumps = 0

\* One call writeTableData(db, table, buf, perDataNumber): server holds the
\* rows Next delivers; the SELECT itself succeeds or fails.
CallWriteTableData ==
    /\ pc = "writeTableData"
    /\ \E ok \in BOOLEAN :
        LET res == [ok |-> ok, columns |-> server.columns, types |-> server.types,
                    rows |-> server.rows]
            w == writeTableData(tables[tblIdx], res, o.perDataNumber)
        IN  /\ doc' = Append(doc, Piece("data", tables[tblIdx], w.out))
            /\ err' = w.err
    /\ pc' = "Return"
    /\ UNCHANGED <<dsn, o, sourceVars, encVars>>
    /\ UNCHANGED <<server, opts, dbs, dbIdx, tables, tblIdx, tt, curDB, rowsErr,
                   allTriggers, dumps>>

NextData == CallWriteTableData

SpecData == InitData /\ [][NextData]_vars

\* The rows cut into groups of size n, the last group holding the rest.
GroupsOf(rows, n) ==
    LET count == (Len(rows) + n - 1) \div n
    IN  [k \in 1..count |->
            SubSeq(rows, (k - 1) * n + 1, IF k * n < Len(rows) THEN k * n ELSE Len(rows))]

\* The INSERT statement (without its delimiter) of a group of rows: the head,
\* and the rows in parentheses joined by a comma and a line break.
InsertOf(table, columns, types, group) ==
    InsertHead(table, columns)
    \o Join([i \in DOMAIN group |-> <<"(">> \o buildRowData(group[i], types).ssql \o <<")">>],
            <<",", "\n">>)

\* The text of a records section between the DISABLE KEYS and the ENABLE KEYS
\* lines.
RecordsBody(text) ==
    LET from == Index(text, <<"D", "I", "S", "A", "B", "L", "E", " ", "K", "E", "Y", "S", " ", "*", "/", ";", "\n">>) + 17
        to == Index(text, <<"/", "*", "!", "4", "0", "0", "0", "0", " ", "A", "L", "T", "E", "R", " ", "T", "A", "B", "L", "E", " ", Backquote, "t", Backquote, " ", "E", "N", "A", "B", "L", "E", " ", "K", "E", "Y", "S">>)
    IN  SubSeq(text, from + 1, to)

\* C16: the records written by a successful writeTableData are the rows
\* delivered, each once and in order, in INSERT statements of perDataNumber
\* rows each (the last holds the rest) when perDataNumber >= 2 and of one row
\* each otherwise, the rows of a statement joined by commas and the
\* statements ended by the delimiter.
C16_RowsInBatches ==
    (pc = "Return" /\ err.nil /\ Len(doc) = 1) =>
        LET n == IF o.perDataNumber >= 2 THEN o.perDataNumber ELSE 1
            groups == GroupsOf(server.rows, n)
            stmts == [k \in DOMAIN groups |->
                        InsertOf(tables[tblIdx], server.columns, server.types, groups[k])]
        IN  /\ RecordsBody(doc[1].text) = Join(stmts, <<";", "\n">>) \o <<";", "\n">>
            /\ \A k \in DOMAIN groups :
                  Len(groups[k]) = IF k < Len(groups) THEN n ELSE Len(server.rows) - (k - 1) * n

\* Three rows were written with a batch size of two: a statement of two rows
\* and one of the remaining row.
C16_Witness ==
    /\ pc = "Return"
    /\ err.nil
    /\ o.perDataNumber = 2
    /\ Len(server.rows) = 3
    /\ Len(server.columns) = 2
    /\ Len(GroupsOf(server.rows, 2)) = 2

(***************************************************************************)
(* The trigger cache, the document as replay input, and the footer.        *)
(***************************************************************************)
\* The texts of the trigger sections of the document.
TriggerPieces == SelectSeq(doc, LAMBDA p : p.sec = "trigger")

\* The trigger section of a table whose triggers are exactly those defined on
\* it in the database db.
TriggerSectionOf(db, table) ==
    writeTableTrigger(table, [trigger |-> DefinedTriggers(db, table), all |-> NilMap,
                              err |-> NilError]).out

\* C17: every trigger section Dump has written for a table holds exactly the
\* triggers defined on that table in the database selected when it was
\* written, in every database of the export and in every Dump call of the
\* process, also after a trigger query that failed.
C17_TriggersOfSelectedDatabase ==
    \A i \in DOMAIN TriggerPieces :
        TriggerPieces[i].text = TriggerSectionOf(TriggerPieces[i].db, TriggerPieces[i].table)

\* The whole document: the texts written to buf, in order.
Document == Flatten([i \in DOMAIN doc |-> doc[i].text])

\* The statement of s that ends at the delimiter at position i: the text after
\* the delimiter before it, without the whitespace around it.
StatementEndingAt(s, i) ==
    LET before == {j \in DelimIdx(s) : j < i}
        from == IF before = {} THEN 1
                ELSE (CHOOSE j \in before : \A k \in before : k <= j) + 1
    IN  Strip(SubSeq(s, from, i))

\* C19: the document of a successful Dump, split at the delimiter and trimmed
\* as Source does, has no statement that is the delimiter alone, whatever the
\* number of rows of a table and with or without triggers.
C19_NoEmptyStatement ==
    DumpSucceeded =>
        \A i \in DelimIdx(Document) : StatementEndingAt(Document, i) # <<Delim>>

\* Whether the footer is in the document.
HasFooter == \E i \in DOMAIN doc : doc[i].sec = "footer"

\* C20: when Dump has returned, the footer is in the document if and only
\* if Dump returned no error, and Dump returned an error when the iteration
\* over the rows of the table exported last has failed.
C20_FooterIffSuccess ==
    pc = "Return" =>
        /\ HasFooter <=> err.nil
        /\ ~rowsErr.nil => ~err.nil

====
